---- MODULE Spec2Model ----
(***************************************************************************)
(* Payment verification of Blink402 (packages/solana): the ledger as seen  *)
(* through the RPC calls of verifyPayment / waitForPayment, the manual     *)
(* transfer validation, and the mock-payments configuration switches.      *)
(***************************************************************************)
EXTENDS Integers, Sequences, FiniteSets, TLC

VARIABLES
    env,        \* process.env: the variables the code reads
    ledger,     \* transactions holding a reference, oldest first
    now,        \* Date.now() in ms
    pc,         \* position of the caller: idle, in verifyPayment, in waitForPayment
    call,       \* the running call: function, parameters, start times
    sig,        \* signature located by findReferenceWithoutValidation ("" = none)
    seen,       \* what the running verifyPayment has observed so far
    done,       \* outcomes of the completed calls, oldest first
    vin,        \* input of a stand-alone validateTransferManually call
    vout,       \* its outcome
    pay,        \* verifyPaymentWithSolanaPay: startTime and attempts of the running call
    proc,       \* the concurrent signAndBroadcastReward / executeRefund calls
    transaction,\* the Transaction objects those calls were given
    sent,       \* what sendRawTransaction put on the wire, oldest first
    blockhash,  \* the cluster's latest blockhash (a counter)
    build,      \* the buildUsdcPaymentTransaction call: position, RPC requests, outcome
    tmpl,       \* the buildRewardTransaction / buildRefundTransaction call
    retry,      \* the withExponentialBackoff run
    quote,      \* the getB402HolderTier / applyB402Discount call and the lookups made
    mcp,        \* the call_tool request being handled
    extract,    \* the extractPayerWithRetry call
    split,      \* the buildSolTransferTransaction / buildUsdcTransferTransaction call
    config      \* getEnv: cachedEnv, the config objects made, the calls so far

extVars == <<pay, proc, transaction, sent, blockhash, build, tmpl, retry, quote, mcp, extract, split, config>>

vars == <<env, ledger, now, pc, call, sig, seen, done, vin, vout,
          pay, proc, transaction, sent, blockhash, build, tmpl, retry, quote, mcp, extract, split, config>>

-----------------------------------------------------------------------------
(* Bounds of the model *)

MaxCalls == 2           \* calls the caller makes one after the other
MaxPolls == 2           \* sleeps one call may take before the model stops following it

-----------------------------------------------------------------------------
(* Strings and error messages.  A message is the sequence of its words, so  *)
(* that String.prototype.includes is a search for a contiguous run of words *)

Includes(msg, pat) ==
    \E i \in 1..(Len(msg) - Len(pat) + 1) : SubSeq(msg, i, i + Len(pat) - 1) = pat

NotFoundPattern == <<"not", "found">>

\* part_005:1194
MsgNoSignature ==
    <<"Payment", "transaction", "not", "found", ".", "Please", "complete", "payment", "first", ".">>

\* part_005:1203
MsgNoConfirmedSignature ==
    <<"No", "confirmed", "transaction", "found", "for", "this", "payment", "reference", ".">>

\* part_005:1277-1280
MsgStatusErr(err) ==
    <<"Transaction", "failed", "on-chain", "with", "error", ":", err, ".",
      "The", "transaction", "was", "rejected", "by", "the", "Solana", "network", ".">>

\* part_005:1296-1299
MsgConfirmationTimeout(timeout, signature) ==
    <<"Transaction", "confirmation", "timeout", "after", ToString(timeout), "ms", ".",
      "The", "transaction", "may", "still", "be", "processing", ".", "Signature", ":", signature>>

\* part_005:1312-1314
MsgConfirmedTxMissing(signature) ==
    <<"Confirmed", "transaction", "not", "found", ".", "This", "should", "not", "happen", ".",
      "Signature", ":", signature>>

\* part_005:1320-1324
MsgMetaErr(err) ==
    <<"Transaction", "failed", "on", "Solana", "blockchain", ".", "This", "usually", "means", ":",
      "insufficient", "balance", ",", "expired", "blockhash", ",", "or", "account", "errors", ".",
      "Error", ":", err, ".", "Please", "submit", "a", "new", "transaction", ".">>

\* part_005:965
MsgNoMeta == <<"Transaction", "metadata", "not", "available", "for", "validation">>

\* part_005:979
MsgReferenceMissing ==
    <<"Reference", "not", "found", "in", "transaction", "-", "this", "is", "not", "the",
      "expected", "payment">>

\* part_005:1051-1053
MsgWrongToken(expected, got) ==
    <<"Wrong", "token", "received", ".", "Expected", expected, ",", "got", got>>

\* part_005:1061-1064
MsgNoTokenTransfer(recipient, ata) ==
    <<"No", "SPL", "token", "transfer", "found", "to", "recipient", recipient, ".",
      "Expected", "transfer", "to", "ATA", ata>>

\* part_005:1074-1077
MsgWrongAmount(expected, actual, diff) ==
    <<"Wrong", "amount", "transferred", ".", "Expected", ToString(expected), ",", "got",
      ToString(actual), ".", "Difference", ":", ToString(diff)>>

\* part_005:1112
MsgRecipientMissing(recipient) ==
    <<"Recipient", recipient, "not", "found", "in", "transaction", "accounts">>

\* part_005:1121
MsgNoSolReceived(recipient, change) ==
    <<"No", "SOL", "received", "by", recipient, ".", "Balance", "change", ":", ToString(change)>>

\* part_005:1131-1134
MsgWrongSolAmount(expected, actual, diff) ==
    <<"Wrong", "SOL", "amount", "transferred", ".", "Expected", ToString(expected), ",", "got",
      ToString(actual), ".", "Difference", ":", ToString(diff)>>

\* part_005:1402
MsgWaitTimeout ==
    <<"Payment", "verification", "timeout", ".", "Transaction", "not", "found", "on-chain", ".">>

-----------------------------------------------------------------------------
(* Addresses, assets and transactions *)

NoToken == "none"                       \* splToken / expectedToken undefined: native SOL
USDC    == "USDC"
Merchant == "M"
Other    == "X"
Payer    == "P"
References == {"R1", "R2"}

\* getAssociatedTokenAddress(mint, owner): the address derived from both
getAssociatedTokenAddress(mint, owner) == "ata:" \o mint \o ":" \o owner

AuxAccount(owner) == "aux:" \o owner    \* a token account of owner that is not the ATA

Abs(a, b) == IF a > b THEN a - b ELSE b - a

OK == <<>>                              \* a validation that did not throw

-----------------------------------------------------------------------------
(* A transaction as getTransaction (jsonParsed) returns it.  accountIndex   *)
(* counts from 0 as in the RPC response; sequences here count from 1.       *)

KeyAt(tx, accountIndex) == tx.accountKeys[accountIndex + 1]

TokenEntry(accountIndex, mint, owner, amount) ==
    [accountIndex |-> accountIndex, mint |-> mint, owner |-> owner, amount |-> amount]

\* <<payer, payer's token account, destination token account>> \o refs
TokenTransferTx(signature, refs, dest, owner, mint, pre, delta) ==
    [ signature |-> signature, status |-> "processed", err |-> "null", blockTime |-> 1700,
      hasMeta |-> TRUE,
      accountKeys  |-> <<Payer, getAssociatedTokenAddress(mint, Payer), dest>> \o refs,
      preBalances  |-> <<9000000, 2039280, 2039280>> \o [i \in 1..Len(refs) |-> 0],
      postBalances |-> <<8995000, 2039280, 2039280>> \o [i \in 1..Len(refs) |-> 0],
      preTokenBalances  |-> <<TokenEntry(1, mint, Payer, 100000), TokenEntry(2, mint, owner, pre)>>,
      postTokenBalances |-> <<TokenEntry(1, mint, Payer, 100000 - delta),
                              TokenEntry(2, mint, owner, pre + delta)>> ]

\* <<payer, recipient>> \o refs
SolTransferTx(signature, refs, rcpt, pre, delta) ==
    [ signature |-> signature, status |-> "processed", err |-> "null", blockTime |-> 1700,
      hasMeta |-> TRUE,
      accountKeys  |-> <<Payer, rcpt>> \o refs,
      preBalances  |-> <<9000000, pre>> \o [i \in 1..Len(refs) |-> 0],
      postBalances |-> <<9000000 - delta - 5000, pre + delta>> \o [i \in 1..Len(refs) |-> 0],
      preTokenBalances  |-> <<>>,
      postTokenBalances |-> <<>> ]

\* a transaction that failed on chain: only the fee is taken
FailedTx(signature, refs, rcpt) ==
    [ SolTransferTx(signature, refs, rcpt, 1000, 0) EXCEPT !.err = "InstructionError" ]

-----------------------------------------------------------------------------
(* Transfer validation (part_005:953-1141) *)

TokenTolerance == 1
SolTolerance   == 1000000

FirstIndex(S) == CHOOSE i \in S : \A j \in S : i <= j

\* part_005:1032-1037
TokenBalanceChange(tx, postBalance) ==
    LET same == { k \in 1..Len(tx.preTokenBalances) :
                    tx.preTokenBalances[k].accountIndex = postBalance.accountIndex }
        preAmount == IF same = {} THEN 0 ELSE tx.preTokenBalances[FirstIndex(same)].amount
    IN  postBalance.amount - preAmount

validateSplTokenTransfer(tx, expectedRecipient, expectedAmount, expectedToken) ==
    LET expectedRecipientATA == getAssociatedTokenAddress(expectedToken, expectedRecipient)
        post == tx.postTokenBalances
        hits == { i \in 1..Len(post) :
                    /\ KeyAt(tx, post[i].accountIndex) = expectedRecipientATA
                    /\ TokenBalanceChange(tx, post[i]) > 0 }
    IN  IF hits = {}
        THEN MsgNoTokenTransfer(expectedRecipient, expectedRecipientATA)
        ELSE LET postBalance  == post[FirstIndex(hits)]
                 actualAmount == TokenBalanceChange(tx, postBalance)
                 amountDifference == Abs(actualAmount, expectedAmount)
             IN  IF postBalance.mint # expectedToken
                 THEN MsgWrongToken(expectedToken, postBalance.mint)
                 ELSE IF amountDifference > TokenTolerance
                 THEN MsgWrongAmount(expectedAmount, actualAmount, amountDifference)
                 ELSE OK

validateSolTransfer_WideTolerance(tx, expectedRecipient, expectedAmount) ==
    LET at == { i \in 1..Len(tx.accountKeys) : tx.accountKeys[i] = expectedRecipient }
    IN  IF at = {}
        THEN MsgRecipientMissing(expectedRecipient)
        ELSE LET balanceChange == tx.postBalances[FirstIndex(at)] - tx.preBalances[FirstIndex(at)]
                 amountDifference == Abs(balanceChange, expectedAmount)
             IN  IF balanceChange <= 0
                 THEN MsgNoSolReceived(expectedRecipient, balanceChange)
                 ELSE IF amountDifference > 10 * SolTolerance
                 THEN MsgWrongSolAmount(expectedAmount, balanceChange, amountDifference)
                 ELSE OK

validateSolTransfer(tx, expectedRecipient, expectedAmount) ==
    LET at == { i \in 1..Len(tx.accountKeys) : tx.accountKeys[i] = expectedRecipient }
    IN  IF at = {}
        THEN MsgRecipientMissing(expectedRecipient)
        ELSE LET recipientIndex == FirstIndex(at)
                 postBalance == IF recipientIndex <= Len(tx.postBalances)
                                THEN tx.postBalances[recipientIndex] ELSE 0
                 preBalance  == IF recipientIndex <= Len(tx.preBalances)
                                THEN tx.preBalances[recipientIndex] ELSE 0
                 balanceChange == postBalance - preBalance
                 amountDifference == Abs(balanceChange, expectedAmount)
             IN  IF balanceChange <= 0
                 THEN MsgNoSolReceived(expectedRecipient, balanceChange)
                 ELSE IF amountDifference > SolTolerance
                 THEN MsgWrongSolAmount(expectedAmount, balanceChange, amountDifference)
                 ELSE OK

validateTransferManually_NoReferenceCheck(tx, expectedRecipient, expectedAmount, expectedToken, reference) ==
    IF ~tx.hasMeta
    THEN MsgNoMeta
    ELSE IF expectedToken # NoToken
    THEN validateSplTokenTransfer(tx, expectedRecipient, expectedAmount, expectedToken)
    ELSE validateSolTransfer(tx, expectedRecipient, expectedAmount)

validateTransferManually(tx, expectedRecipient, expectedAmount, expectedToken, reference) ==
    IF ~tx.hasMeta
    THEN MsgNoMeta
    ELSE IF \A i \in 1..Len(tx.accountKeys) : tx.accountKeys[i] # reference
    THEN MsgReferenceMissing
    ELSE IF expectedToken # NoToken
    THEN validateSplTokenTransfer(tx, expectedRecipient, expectedAmount, expectedToken)
    ELSE validateSolTransfer(tx, expectedRecipient, expectedAmount)

-----------------------------------------------------------------------------
(* Stand-alone validation: every transaction shape against every expectation *)

RefLists == {<<>>, <<"R1">>, <<"R2">>}
TokenDeltas == {-5, 0, 40000, 49998, 49999, 50000, 50001, 50002}
SolDeltas   == {-5, 0, 1, 500000, 3999999, 4000000, 5000000, 6000000, 6000001}
ExpectedAmounts == {50000, 500000, 5000000}

TokenDest == { <<getAssociatedTokenAddress(USDC, Merchant), Merchant>>,
               <<AuxAccount(Merchant), Merchant>>,
               <<getAssociatedTokenAddress(USDC, Other), Other>> }

ValidateTxs ==
    { TokenTransferTx("T", r, d[1], d[2], USDC, 10, delta) :
        r \in RefLists, d \in TokenDest, delta \in TokenDeltas }
    \cup { SolTransferTx("T", r, rcpt, 1000, delta) :
        r \in RefLists, rcpt \in {Merchant, Other}, delta \in SolDeltas }
    \cup { [ SolTransferTx("T", <<"R1">>, Merchant, 1000, 500000) EXCEPT !.hasMeta = FALSE ] }

Pending == <<"pending">>

ValidateInputs ==
    [ tx : ValidateTxs, recipient : {Merchant, Other}, amount : ExpectedAmounts,
      token : {NoToken, USDC}, reference : {"R1"} ]

NoInput == [ tx |-> SolTransferTx("T", <<>>, Other, 0, 0), recipient |-> Merchant, amount |-> 0,
             token |-> NoToken, reference |-> "R1" ]

-----------------------------------------------------------------------------
(* Configuration switches read from process.env (part_003, part_005) *)

Unset == "<unset>"                      \* the variable is undefined

\* part_003:134
isProduction(e) == e.NODE_ENV = "production"

\* part_003:157, @blink402/config
isMockPaymentsEnabled(e) ==
    IF isProduction(e) THEN FALSE ELSE e.MOCK_PAYMENTS = "true"

\* part_005:1447, @blink402/solana
isMockPaymentsEnabledSolana(e) ==
    e.MOCK_PAYMENTS = "true" /\ e.NODE_ENV # "production"

\* part_005:1239, the test inside verifyPayment
MockBypass(e) ==
    e.MOCK_PAYMENTS = "true" /\ e.NODE_ENV # "production"

\* part_003:67-116, the fields of the returned config this model reads
validateEnv(e) ==
    LET missing == { k \in {"DATABASE_URL", "ONCHAIN_API_KEY"} : e[k] = Unset \/ e[k] = "" }
    IN  [ threw         |-> missing # {},
          MOCK_PAYMENTS |-> (e.MOCK_PAYMENTS = "true"),
          NODE_ENV      |-> IF e.NODE_ENV = Unset \/ e.NODE_ENV = "" THEN "development"
                            ELSE e.NODE_ENV ]

\* production always with the flag set: the deployment the switches guard against
Environments ==
    { e \in [ NODE_ENV : {"production", "development"}, MOCK_PAYMENTS : {"true", Unset},
              DATABASE_URL : {"postgres"}, ONCHAIN_API_KEY : {"key"} ] :
        e.NODE_ENV = "production" => e.MOCK_PAYMENTS = "true" }

-----------------------------------------------------------------------------
(* The ledger behind the RPC endpoint *)

Signatures == <<"T1", "T2">>            \* the signature of the n-th transaction submitted

SignatureLimit == 10                    \* getSignaturesForAddress(reference, {limit: 10})

LedgerShapes(signature) ==
    { TokenTransferTx(signature, <<"R1">>, getAssociatedTokenAddress(USDC, Merchant), Merchant,
                      USDC, 10, 50000),
      TokenTransferTx(signature, <<"R1">>, getAssociatedTokenAddress(USDC, Merchant), Merchant,
                      USDC, 10, 40000),
      TokenTransferTx(signature, <<"R1">>, AuxAccount(Merchant), Merchant, USDC, 10, 50000),
      SolTransferTx(signature, <<"R1">>, Merchant, 1000, 50000),
      SolTransferTx(signature, <<"R1">>, Other, 1000, 50000),
      FailedTx(signature, <<"R1">>, Merchant),
      TokenTransferTx(signature, <<"R2">>, getAssociatedTokenAddress(USDC, Merchant), Merchant,
                      USDC, 10, 50000) }

HasKey(tx, address) == \E i \in 1..Len(tx.accountKeys) : tx.accountKeys[i] = address

Reverse(s) == [ i \in 1..Len(s) |-> s[Len(s) + 1 - i] ]

Min(a, b) == IF a < b THEN a ELSE b

\* connection.getSignaturesForAddress: newest first, at most `limit`
getSignaturesForAddress(ldg, reference, limit) ==
    LET all == SelectSeq(Reverse(ldg), LAMBDA tx : HasKey(tx, reference))
    IN  SubSeq(all, 1, Min(limit, Len(all)))

TxOf(ldg, signature) ==
    ldg[CHOOSE i \in 1..Len(ldg) : ldg[i].signature = signature]

NullResponse == [ isNull |-> TRUE, confirmationStatus |-> "none", err |-> "null" ]

CommitmentRank(status) ==
    CASE status = "processed" -> 1 [] status = "confirmed" -> 2 [] status = "finalized" -> 3

\* connection.getSignatureStatus without searchTransactionHistory: the answer of
\* the node asked, whose recent status cache may not hold the signature (null)
\* or may lag behind the cluster (an earlier commitment level)
SignatureStatusResponses(ldg, signature) ==
    { NullResponse } \cup
    { [ isNull |-> FALSE, confirmationStatus |-> s, err |-> TxOf(ldg, signature).err ] :
        s \in { l \in {"processed", "confirmed", "finalized"} :
                  CommitmentRank(l) <= CommitmentRank(TxOf(ldg, signature).status) } }

-----------------------------------------------------------------------------
(* verifyPayment and waitForPayment (part_005:1181-1403) *)

DefaultVerifyTimeout == 30000           \* verifyPayment: timeout = 30000
StatusPollMs  == 2000                   \* setTimeout(resolve, 2000) in the status loop
checkInterval == 2000                   \* waitForPayment: check every 2 seconds

Result(signature, amount, timestamp) ==
    [ ok |-> TRUE, signature |-> signature, amount |-> amount, timestamp |-> timestamp,
      message |-> <<>> ]

Failure(message) ==
    [ ok |-> FALSE, signature |-> "", amount |-> 0, timestamp |-> 0, message |-> message ]

IsConfirmedSignature_AnyStatus(info) == TRUE

\* part_005:1198-1200
IsConfirmedSignature(info) ==
    info.status = "confirmed" \/ info.status = "finalized"

\* part_005:1181-1210
findReferenceWithoutValidation(ldg, reference) ==
    LET signatures == getSignaturesForAddress(ldg, reference, SignatureLimit)
        confirmed  == { i \in 1..Len(signatures) : IsConfirmedSignature(signatures[i]) }
    IN  IF Len(signatures) = 0
        THEN Failure(MsgNoSignature)
        ELSE IF confirmed = {}
        THEN Failure(MsgNoConfirmedSignature)
        ELSE Result(signatures[FirstIndex(confirmed)].signature, 0, 0)

StatusConfirmed_AnyStatus(confirmationStatus) == TRUE

\* part_005:1285
StatusConfirmed(confirmationStatus) ==
    confirmationStatus = "confirmed" \/ confirmationStatus = "finalized"

\* part_005:1276
StatusFailed_Never(status) == FALSE

StatusFailed(status) == status.err # "null"

\* part_005:1318
TxFailed(tx) == tx.hasMeta /\ tx.err # "null"

\* part_005:1242
MockSignature(reference) == "MOCK_" \o reference \o "_VERIFIED"

\* part_005:1343, tx.blockTime || Math.floor(Date.now() / 1000)
Timestamp(tx, t) == IF tx.blockTime # 0 THEN tx.blockTime ELSE t \div 1000

IsNotFoundYet_AnyError(message) == TRUE

IsNotFoundYet_NoRetry(message) == FALSE

\* part_005:1387
IsNotFoundYet(message) == Includes(message, NotFoundPattern)

NoCall == [ fn |-> "none", params |-> [ reference |-> "", recipient |-> "", amount |-> 0,
                                        splToken |-> NoToken, timeout |-> 0 ],
            vpTimeout |-> 0, vpStart |-> 0, wfStart |-> 0, polls |-> 0, located |-> FALSE,
            caught |-> <<>>, caughtSig |-> "", validAtStart |-> {} ]

NoSeen == [ mock |-> FALSE, status |-> "none", err |-> "null", fetched |-> FALSE ]

CallParams ==
    [ reference : {"R1"}, recipient : {Merchant}, amount : {50000},
      splToken : {USDC, NoToken}, timeout : {4000} ]

\* the confirmed, successful transactions that list the reference and raise a
\* holding of the recipient in the expected asset by exactly the expected amount
IsValidPayment(tx, p) ==
    /\ tx.status \in {"confirmed", "finalized"}
    /\ tx.err = "null"
    /\ \E i \in 1..Len(tx.accountKeys) : tx.accountKeys[i] = p.reference
    /\ IF p.splToken = NoToken
       THEN \E i \in 1..Len(tx.accountKeys) :
               /\ tx.accountKeys[i] = p.recipient
               /\ tx.postBalances[i] - tx.preBalances[i] = p.amount
       ELSE \E i \in 1..Len(tx.postTokenBalances) :
               /\ tx.postTokenBalances[i].owner = p.recipient
               /\ tx.postTokenBalances[i].mint = p.splToken
               /\ tx.postTokenBalances[i].amount - tx.preTokenBalances[i].amount = p.amount

ValidPayments(ldg, p) ==
    { ldg[i].signature : i \in { k \in 1..Len(ldg) : IsValidPayment(ldg[k], p) } }

NewCall(fn, p, vpTimeout) ==
    [ fn |-> fn, params |-> p, vpTimeout |-> vpTimeout, vpStart |-> now, wfStart |-> now,
      polls |-> 0, located |-> FALSE, caught |-> <<>>, caughtSig |-> "",
      validAtStart |-> IF fn = "verifyPayment" THEN ValidPayments(ledger, p) ELSE {} ]

\* the caller asks again only after a result; after an error it starts over
\* with a fresh run of this model (the code keeps no state between calls)
CanCall ==
    /\ pc = "idle"
    /\ Len(done) < MaxCalls
    /\ \A i \in 1..Len(done) : done[i].outcome.ok

\* the call is over: its outcome reaches the caller
Finish(c, outcome, sn) ==
    /\ done' = Append(done, [ fn |-> c.fn, params |-> c.params, outcome |-> outcome,
                              seen |-> sn, located |-> c.located, sig |-> sig,
                              validAtStart |-> c.validAtStart ])
    /\ pc' = "idle"
    /\ call' = NoCall
    /\ sig' = ""
    /\ seen' = NoSeen
    /\ now' = now

\* verifyPayment ends with outcome: to its caller, or into the catch block
\* of waitForPayment (part_005:1385-1399)
Settle(c, outcome, sn) ==
    IF c.fn = "waitForPayment" /\ ~outcome.ok /\ IsNotFoundYet(outcome.message)
    THEN /\ c.polls < MaxPolls
         /\ now' = now + checkInterval
         /\ pc' = "wfLoop"
         /\ call' = [ c EXCEPT !.polls = @ + 1, !.caught = outcome.message, !.caughtSig = sig ]
         /\ sig' = ""
         /\ seen' = NoSeen
         /\ done' = done
    ELSE Finish(c, outcome, sn)

\* part_005:1234-1262: the bypass test, the signature lookup, the loop's start
VerifyPaymentEntry(c) ==
    IF MockBypass(env)
    THEN Settle(c, Result(MockSignature(c.params.reference), c.params.amount, now \div 1000),
                [ NoSeen EXCEPT !.mock = TRUE ])
    ELSE LET found == findReferenceWithoutValidation(ledger, c.params.reference)
         IN  IF ~found.ok
             THEN Settle(c, found, NoSeen)
             ELSE /\ pc' = "vpStatus"
                  /\ call' = [ c EXCEPT !.vpStart = now, !.located = TRUE ]
                  /\ sig' = found.signature
                  /\ seen' = NoSeen
                  /\ UNCHANGED <<now, done>>

CallVerifyPayment ==
    /\ CanCall
    /\ \E p \in CallParams : VerifyPaymentEntry(NewCall("verifyPayment", p, p.timeout))
    /\ UNCHANGED <<env, ledger, vin, vout>>
    /\ UNCHANGED extVars

CallWaitForPayment ==
    /\ CanCall
    /\ \E p \in CallParams :
        /\ call' = NewCall("waitForPayment", p, DefaultVerifyTimeout)
        /\ pc' = "wfLoop"
    /\ UNCHANGED <<env, ledger, now, sig, seen, done, vin, vout>>
    /\ UNCHANGED extVars

\* part_005:1374-1383 and 1402
WfIterate ==
    /\ pc = "wfLoop"
    /\ IF now - call.wfStart < call.params.timeout
       THEN VerifyPaymentEntry(call)
       ELSE Finish(call, Failure(MsgWaitTimeout), NoSeen)
    /\ UNCHANGED <<env, ledger, vin, vout>>
    /\ UNCHANGED extVars

\* part_005:1265 and 1295-1300: the loop ends unconfirmed
VpConfirmTimeout ==
    /\ pc = "vpStatus"
    /\ ~(now - call.vpStart < call.vpTimeout)
    /\ Settle(call, Failure(MsgConfirmationTimeout(call.vpTimeout, sig)), seen)
    /\ UNCHANGED <<env, ledger, vin, vout>>
    /\ UNCHANGED extVars

\* part_005:1265-1293: one turn of the status loop
VpPollStatus ==
    /\ pc = "vpStatus"
    /\ now - call.vpStart < call.vpTimeout
    /\ \E status \in SignatureStatusResponses(ledger, sig) :
        LET sn == [ seen EXCEPT !.status = status.confirmationStatus, !.err = status.err ]
        IN  IF status.isNull
            THEN /\ call.polls < MaxPolls
                 /\ now' = now + StatusPollMs
                 /\ call' = [ call EXCEPT !.polls = @ + 1 ]
                 /\ UNCHANGED <<pc, sig, seen, done>>
            ELSE IF StatusFailed(status)
            THEN Settle(call, Failure(MsgStatusErr(status.err)), sn)
            ELSE IF StatusConfirmed(status.confirmationStatus)
            THEN /\ pc' = "vpFetch"
                 /\ seen' = sn
                 /\ UNCHANGED <<now, call, sig, done>>
            ELSE /\ call.polls < MaxPolls
                 /\ now' = now + StatusPollMs
                 /\ call' = [ call EXCEPT !.polls = @ + 1 ]
                 /\ seen' = sn
                 /\ UNCHANGED <<pc, sig, done>>
    /\ UNCHANGED <<env, ledger, vin, vout>>
    /\ UNCHANGED extVars

\* part_005:1304-1315: getTransaction answers null
VpFetchNull ==
    /\ pc = "vpFetch"
    /\ Settle(call, Failure(MsgConfirmedTxMissing(sig)), seen)
    /\ UNCHANGED <<env, ledger, vin, vout>>
    /\ UNCHANGED extVars

\* part_005:1304-1344: the transaction is fetched, checked and validated
VpFetchValidate ==
    /\ pc = "vpFetch"
    /\ LET tx == TxOf(ledger, sig)
           sn == [ seen EXCEPT !.fetched = TRUE ]
           v  == validateTransferManually(tx, call.params.recipient, call.params.amount,
                                          call.params.splToken, call.params.reference)
       IN  IF TxFailed(tx)
           THEN Settle(call, Failure(MsgMetaErr(tx.err)), sn)
           ELSE IF v # OK
           THEN Settle(call, Failure(v), sn)
           ELSE Settle(call, Result(sig, call.params.amount, Timestamp(tx, now)), sn)
    /\ UNCHANGED <<env, ledger, vin, vout>>
    /\ UNCHANGED extVars

\* a wallet broadcasts a transaction
LedgerSubmit ==
    /\ Len(ledger) < Len(Signatures)
    /\ \E tx \in LedgerShapes(Signatures[Len(ledger) + 1]) : ledger' = Append(ledger, tx)
    /\ UNCHANGED <<env, now, pc, call, sig, seen, done, vin, vout>>
    /\ UNCHANGED extVars

\* the cluster moves a transaction to the next commitment level
LedgerAdvance ==
    /\ \E i \in 1..Len(ledger) :
        /\ ledger[i].status # "finalized"
        /\ ledger' = [ ledger EXCEPT ![i].status =
                          IF @ = "processed" THEN "confirmed" ELSE "finalized" ]
    /\ UNCHANGED <<env, now, pc, call, sig, seen, done, vin, vout>>
    /\ UNCHANGED extVars

-----------------------------------------------------------------------------
(* verifyPaymentWithSolanaPay (part_007:41-172) *)

pollInterval == 1000                    \* 1 second between polls

PayCommitment == "finalized"            \* commitment = 'finalized'

\* part_007:57
maxAttempts(timeout) == timeout \div pollInterval

\* part_007:157
MsgPayTimeout(timeout) ==
    <<"Payment", "verification", "timeout", "after", ToString(timeout), "ms", ".",
      "Transaction", "not", "found", ".">>

\* part_007:171
MsgPayAttempts(n) ==
    <<"Payment", "verification", "failed", "after", ToString(n), "attempts", ".",
      "Transaction", "not", "found", ".">>

\* part_007:126
MsgPayWrongRecipient(recipient) ==
    <<"Payment", "went", "to", "wrong", "recipient", ".", "Expected", ":", recipient>>

\* part_007:129
MsgPayAmountMismatch(amount) ==
    <<"Payment", "amount", "mismatch", ".", "Expected", ":", ToString(amount)>>

\* part_007:132
MsgPayWrongToken(splToken) ==
    <<"Wrong", "token", "type", ".", "Expected", "SPL", "token", ":",
      IF splToken = NoToken THEN "SOL" ELSE splToken>>

\* part_007:135
MsgPayReferenceMismatch == <<"Reference", "mismatch", "in", "transaction">>

\* part_007:139
MsgPayValidationFailed(message) == <<"Payment", "validation", "failed", ":">> \o message

PayResult(signature, blockTime, confirmationStatus) ==
    [ ok |-> TRUE, signature |-> signature, blockTime |-> blockTime,
      confirmationStatus |-> confirmationStatus, message |-> <<>> ]

\* findReference of @solana/pay as called at part_007:72: the oldest signature
\* that lists the reference at the finality asked for, FindReferenceError if none
findReference(ldg, reference, finality) ==
    LET all == SelectSeq(ldg, LAMBDA tx : /\ HasKey(tx, reference)
                                          /\ CommitmentRank(tx.status) >= CommitmentRank(finality))
    IN  IF Len(all) = 0
        THEN [ ok |-> FALSE, name |-> "FindReferenceError", message |-> <<"not", "found">> ]
        ELSE [ ok |-> TRUE, signature |-> all[1].signature, blockTime |-> all[1].blockTime,
               confirmationStatus |-> all[1].status ]

\* validateTransfer of @solana/pay as called at part_007:94: it returns, or
\* throws a ValidateTransferError with one of these messages (lower case)
ValidateTransferErrors ==
    { <<"not", "found">>, <<"missing", "meta">>, <<"recipient", "not", "found">>,
      <<"amount", "not", "transferred">>, <<"invalid", "token", "transfer">>,
      <<"invalid", "reference">> }

\* part_007:121-140
PayValidationMessage(errorMessage, p) ==
    IF Includes(errorMessage, <<"recipient", "not", "found">>)
    THEN MsgPayWrongRecipient(p.recipient)
    ELSE IF Includes(errorMessage, <<"amount">>)
    THEN MsgPayAmountMismatch(p.amount)
    ELSE IF Includes(errorMessage, <<"token">>)
    THEN MsgPayWrongToken(p.splToken)
    ELSE IF Includes(errorMessage, <<"reference">>)
    THEN MsgPayReferenceMismatch
    ELSE MsgPayValidationFailed(errorMessage)

NoPay == [ startTime |-> 0, attempts |-> 0 ]

PayTimeouts == {0, 500, 1000, 2500, 5000}

RpcLatencies == {0, 300}                \* ms one RPC round trip may take

PayParams ==
    [ reference : {"R1"}, recipient : {Merchant}, amount : {50000},
      splToken : {USDC}, timeout : PayTimeouts ]

\* the call is over at time t: its outcome reaches the caller
PayFinish(outcome, t) ==
    /\ done' = Append(done, [ fn |-> call.fn, params |-> call.params, outcome |-> outcome,
                              seen |-> NoSeen, located |-> outcome.ok, sig |-> "",
                              validAtStart |-> {} ])
    /\ pc' = "idle"
    /\ call' = NoCall
    /\ pay' = NoPay
    /\ now' = t
    /\ UNCHANGED <<sig, seen>>

\* part_007:44-66
CallVerifyPaymentWithSolanaPay ==
    /\ CanCall
    /\ \E p \in PayParams :
        /\ call' = NewCall("verifyPaymentWithSolanaPay", p, p.timeout)
        /\ pay' = [ startTime |-> now, attempts |-> 0 ]
        /\ pc' = "payLoop"
    /\ UNCHANGED <<env, ledger, now, sig, seen, done, vin, vout>>
    /\ UNCHANGED <<proc, transaction, sent, blockhash, build, tmpl, retry, quote, mcp, extract, split, config>>

\* part_007:69-171: one turn of the polling loop, or its exit
PayIterate ==
    /\ pc = "payLoop"
    /\ IF pay.attempts < maxAttempts(call.params.timeout)
       THEN \E d \in RpcLatencies :
              LET signatureInfo == findReference(ledger, call.params.reference, PayCommitment)
                  t == now + d
              IN  IF signatureInfo.ok
                  THEN \/ PayFinish(PayResult(signatureInfo.signature, signatureInfo.blockTime,
                                              signatureInfo.confirmationStatus), t)
                       \/ \E e \in ValidateTransferErrors :
                            PayFinish(Failure(PayValidationMessage(e, call.params)), t)
                  ELSE IF t - pay.startTime > call.params.timeout
                  THEN PayFinish(Failure(MsgPayTimeout(call.params.timeout)), t)
                  ELSE /\ now' = t + pollInterval
                       /\ pay' = [ pay EXCEPT !.attempts = @ + 1 ]
                       /\ UNCHANGED <<pc, call, sig, seen, done>>
       ELSE PayFinish(Failure(MsgPayAttempts(maxAttempts(call.params.timeout))), now)
    /\ UNCHANGED <<env, ledger, vin, vout>>
    /\ UNCHANGED <<proc, transaction, sent, blockhash, build, tmpl, retry, quote, mcp, extract, split, config>>

-----------------------------------------------------------------------------
(* signAndBroadcastReward and executeRefund (part_005:658-752, 859-894),     *)
(* called concurrently with one keypair.  A call runs from one await to the  *)
(* next without interruption; at an await the other call may run.            *)

Procs == {1, 2}                         \* the concurrent calls
TxIds == {"tx1", "tx2"}                 \* the Transaction objects passed to them

MaxBlockhash == 3       \* blockhashes the cluster produces while the calls run

FirstBlockhash == 1                     \* the blockhash the transactions were built with

NoProc ==
    [ fn |-> "none", pc |-> "idle", tx |-> "none", skipConfirmation |-> FALSE, error |-> "" ]

\* buildRewardTransaction / buildRefundTransaction: unsigned, blockhash of build time
BuiltTransaction == [ recentBlockhash |-> FirstBlockhash, signedFor |-> 0 ]

\* transaction.sign(keypair); sendRawTransaction(transaction.serialize())
SignAndSend(p, t, txn) ==
    /\ transaction' = [ transaction EXCEPT ![t] = [ txn EXCEPT !.signedFor = txn.recentBlockhash ] ]
    /\ sent' = Append(sent, [ by |-> p, tx |-> t, recentBlockhash |-> txn.recentBlockhash,
                              landed |-> FALSE ])

nonBroadcastVars ==
    <<env, ledger, now, pc, call, sig, seen, done, vin, vout, pay, build, tmpl, retry, quote,
      mcp, extract, split, config>>

\* part_005:664-668: the call begins and awaits getLatestBlockhash
CallSignAndBroadcastReward(p) ==
    /\ proc[p].pc = "idle"
    /\ \E t \in TxIds, skip \in BOOLEAN :
          proc' = [ proc EXCEPT ![p] = [ fn |-> "signAndBroadcastReward", pc |-> "blockhash",
                                         tx |-> t, skipConfirmation |-> skip,
                                         error |-> "" ] ]
    /\ UNCHANGED <<transaction, sent, blockhash>>
    /\ UNCHANGED nonBroadcastVars

\* part_005:668-683: the blockhash arrives; it is bound, the transaction is
\* signed, serialized and handed to sendRawTransaction, which is awaited
RewardBindSignSend(p) ==
    /\ proc[p].fn = "signAndBroadcastReward"
    /\ proc[p].pc = "blockhash"
    /\ SignAndSend(p, proc[p].tx, [ transaction[proc[p].tx] EXCEPT !.recentBlockhash = blockhash ])
    /\ proc' = [ proc EXCEPT ![p].pc = "send" ]
    /\ UNCHANGED blockhash
    /\ UNCHANGED nonBroadcastVars

\* part_005:864-877: the call begins, signs with the blockhash of build time
\* and awaits sendRawTransaction
CallExecuteRefund(p) ==
    /\ proc[p].pc = "idle"
    /\ \E t \in TxIds :
          /\ SignAndSend(p, t, transaction[t])
          /\ proc' = [ proc EXCEPT ![p] = [ fn |-> "executeRefund", pc |-> "send", tx |-> t,
                                            skipConfirmation |-> FALSE, error |-> "" ] ]
    /\ UNCHANGED blockhash
    /\ UNCHANGED nonBroadcastVars

\* part_005:676-706 and 870-885: sendRawTransaction resolves with the signature
SendResolved(p) ==
    /\ proc[p].pc = "send"
    /\ proc' = [ proc EXCEPT ![p].pc =
                   IF proc[p].fn = "executeRefund" THEN "refundBlockhash"
                   ELSE IF proc[p].skipConfirmation THEN "done" ELSE "confirm" ]
    /\ UNCHANGED <<transaction, sent, blockhash>>
    /\ UNCHANGED nonBroadcastVars

\* part_005:707-751: sendRawTransaction rejects (preflight failure); the error is rethrown
SendRejected(p) ==
    /\ proc[p].pc = "send"
    /\ proc' = [ proc EXCEPT ![p].pc = "failed", ![p].error = "send" ]
    /\ UNCHANGED <<transaction, sent, blockhash>>
    /\ UNCHANGED nonBroadcastVars

\* part_005:885-889: executeRefund fetches a blockhash for confirmTransaction
RefundBlockhash(p) ==
    /\ proc[p].pc = "refundBlockhash"
    /\ proc' = [ proc EXCEPT ![p].pc = "confirm" ]
    /\ UNCHANGED <<transaction, sent, blockhash>>
    /\ UNCHANGED nonBroadcastVars

\* part_005:697-706 and 886-893: confirmTransaction resolves, the call returns
ConfirmResolved(p) ==
    /\ proc[p].pc = "confirm"
    /\ proc' = [ proc EXCEPT ![p].pc = "done" ]
    /\ UNCHANGED <<transaction, sent, blockhash>>
    /\ UNCHANGED nonBroadcastVars

\* blockhashes after which a transaction can no longer be processed
\* (lastValidBlockHeight, part_005:668-670)
BlockhashValidity == 2

Expired(entry) == blockhash - entry.recentBlockhash >= BlockhashValidity

\* the same Transaction object signed over the same blockhash is the same transaction
SameTransaction(a, b) == a.tx = b.tx /\ a.recentBlockhash = b.recentBlockhash

\* the entry of sent that call p put on the wire
SentBy(p) == CHOOSE i \in 1..Len(sent) : sent[i].by = p

\* the errors confirmTransaction rejects with, as the catch block names them
\* (part_005:710-727); the last one is any other error, rethrown as it is
ConfirmErrors == {"expired", "timeout", "other"}

\* part_005:697-727: confirmTransaction rejects: the block height was exceeded before
\* the transaction was seen, or the wait timed out or failed while the transaction may
\* still be processed
ConfirmRejected(p, error) ==
    /\ proc[p].fn = "signAndBroadcastReward"
    /\ proc[p].pc = "confirm"
    /\ error \in ConfirmErrors
    /\ error = "expired" => (~sent[SentBy(p)].landed /\ Expired(sent[SentBy(p)]))

\* part_005:707-751: the catch block rethrows
RewardConfirmFails(p) ==
    /\ \E error \in ConfirmErrors :
          /\ ConfirmRejected(p, error)
          /\ proc' = [ proc EXCEPT ![p].pc = "failed", ![p].error = error ]
    /\ UNCHANGED <<transaction, sent, blockhash>>
    /\ UNCHANGED nonBroadcastVars

\* part_005:697-706: confirmTransaction resolves for a transaction the cluster confirmed
RewardConfirmed(p) ==
    /\ proc[p].fn = "signAndBroadcastReward"
    /\ proc[p].pc = "confirm"
    /\ sent[SentBy(p)].landed
    /\ proc' = [ proc EXCEPT ![p].pc = "done" ]
    /\ UNCHANGED <<transaction, sent, blockhash>>
    /\ UNCHANGED nonBroadcastVars

\* the caller calls again for the same claim after an error
RetrySignAndBroadcastReward(p, q) ==
    /\ p # q
    /\ proc[p].fn = "signAndBroadcastReward"
    /\ proc[p].pc = "failed"
    /\ proc[q].pc = "idle"
    /\ \E skip \in BOOLEAN :
          proc' = [ proc EXCEPT ![q] = [ fn |-> "signAndBroadcastReward", pc |-> "blockhash",
                                         tx |-> proc[p].tx, skipConfirmation |-> skip,
                                         error |-> "" ] ]
    /\ UNCHANGED <<transaction, sent, blockhash>>
    /\ UNCHANGED nonBroadcastVars

\* the cluster confirms a transaction it accepted, while its blockhash is valid
ClusterConfirms ==
    /\ \E i \in 1..Len(sent) :
          /\ ~sent[i].landed
          /\ ~Expired(sent[i])
          /\ proc[sent[i].by].pc \in {"confirm", "done", "failed"}
          /\ proc[sent[i].by].error # "send"
          /\ sent' = [ j \in 1..Len(sent) |->
                         IF SameTransaction(sent[j], sent[i])
                         THEN [ sent[j] EXCEPT !.landed = TRUE ] ELSE sent[j] ]
    /\ UNCHANGED <<proc, transaction, blockhash>>
    /\ UNCHANGED nonBroadcastVars

\* the cluster produces a block
BlockhashAdvance ==
    /\ blockhash < MaxBlockhash
    /\ blockhash' = blockhash + 1
    /\ UNCHANGED <<proc, transaction, sent>>
    /\ UNCHANGED nonBroadcastVars

-----------------------------------------------------------------------------
(* buildUsdcPaymentTransaction (token-holder.ts:424-536).  amountUsdc is a   *)
(* JavaScript number: NaN, or a value kept here in units of 10^-7 USDC, one  *)
(* tenth of an atomic unit, so that Math.round has a digit to round.         *)

PAYAI_FEE_PAYER   == "PayAI"
USDC_MINT_MAINNET == "USDC"
USDC_MINT_DEVNET  == "USDC-dev"
USDC_DECIMALS     == 6
OffCurve          == "PDA"              \* a program-derived address: no point of the curve
ComputeUnitLimit  == 40000
ComputeUnitPrice  == 1

NaN == [ finite |-> FALSE, e7 |-> 0 ]

Usdc(e7) == [ finite |-> TRUE, e7 |-> e7 ]

\* Math.round(amountUsdc * 1_000_000), the argument being finite
RoundToAtomic(amountUsdc) == (amountUsdc.e7 + 5) \div 10

\* token-holder.ts:440, BigInt(NaN)
MsgNotAnInteger ==
    <<"The", "number", "NaN", "cannot", "be", "converted", "to", "a", "BigInt", "because",
      "it", "is", "not", "an", "integer">>

\* token-holder.ts:452
MsgPayerInvalid ==
    <<"Your", "wallet", "address", "is", "invalid", "or", "off-curve", ".", "Please", "try",
      "disconnecting", "and", "reconnecting", "your", "wallet", ".">>

\* token-holder.ts:464
MsgMerchantInvalid(merchant) ==
    <<"The", "merchant's", "wallet", "address", "is", "invalid", "(", merchant, ")", ".",
      "Please", "contact", "them", "to", "update", "their", "payout", "wallet", ".">>

\* token-holder.ts:474, the balance in atomic units
MsgInsufficientUsdc(balance, amountUsdc) ==
    <<"Insufficient", "USDC", "balance", ".", "You", "have", ToString(balance), "but", "need",
      ToString(amountUsdc.e7), ".">>

\* token-holder.ts:478
MsgNoUsdcAccount ==
    <<"No", "USDC", "account", "found", ".", "Please", "add", "USDC", "to", "your", "wallet",
      "first", ".">>

\* token-holder.ts:486-488
MsgMerchantAccountMissing ==
    <<"Merchant", "USDC", "account", "doesn't", "exist", ".", "Please", "contact", "the",
      "merchant", "to", "set", "up", "their", "USDC", "account", ".">>

\* what getAccount (spl-token) throws for an address without a token account:
\* TokenAccountNotFoundError, whose message is empty, or an RPC error text
AccountNotFoundMessages == { <<>>, <<"could", "not", "find", "account">> }

\* createTransferCheckedInstruction given a negative amount: the u64 encoder
\* of the library may throw
MsgAmountEncoding == <<"amount", "out", "of", "range", "for", "u64">>

NoAccount == -1                         \* the address holds no token account

BuildPayers    == {Payer, OffCurve, PAYAI_FEE_PAYER}
BuildMerchants == {Merchant, OffCurve}
BuildAmounts   == { NaN, Usdc(-10000000), Usdc(0), Usdc(4), Usdc(100000), Usdc(10000000) }
BuildNetworks  == {"mainnet-beta", "devnet"}

BuildParams ==
    [ payer : BuildPayers, merchant : BuildMerchants, amountUsdc : BuildAmounts,
      network : BuildNetworks ]

\* the token accounts behind the RPC endpoint: the balance of the payer's
\* associated token account (atomic units) and whether the merchant's exists
BuildChains == [ payerBalance : {NoAccount, 0, 5000, 2000000}, merchantAccount : BOOLEAN ]

NoTemplate == [ payerKey |-> "none", recentBlockhash |-> 0, instructions |-> <<>> ]

NoBuild ==
    [ pc |-> "idle",
      params |-> [ payer |-> Payer, merchant |-> Merchant, amountUsdc |-> Usdc(0),
                   network |-> "mainnet-beta" ],
      chain |-> [ payerBalance |-> NoAccount, merchantAccount |-> FALSE ],
      rpc |-> <<>>, payerATA |-> "", merchantATA |-> "", amountAtomic |-> 0,
      ok |-> FALSE, message |-> <<>>, template |-> NoTemplate ]

\* token-holder.ts:437
UsdcMint(network) == IF network = "devnet" THEN USDC_MINT_DEVNET ELSE USDC_MINT_MAINNET

\* getAssociatedTokenAddress(mint, owner) with allowOwnerOffCurve = false throws
\* TokenOwnerOffCurveError for an owner that is not on the curve
OwnerOffCurve(owner) == owner = OffCurve

BuildThrow(b, message) == [ b EXCEPT !.pc = "done", !.ok = FALSE, !.message = message ]

nonBuildVars ==
    <<env, ledger, now, pc, call, sig, seen, done, vin, vout, pay, proc, transaction, sent,
      blockhash, tmpl, retry, quote, mcp, extract, split, config>>

\* token-holder.ts:427-469: up to the first RPC request
BuildCall ==
    /\ build.pc = "idle"
    /\ \E p \in BuildParams :
          LET b == [ build EXCEPT !.params = p ]
          IN  build' =
                IF ~p.amountUsdc.finite
                THEN BuildThrow(b, MsgNotAnInteger)
                ELSE IF OwnerOffCurve(p.payer)
                THEN BuildThrow(b, MsgPayerInvalid)
                ELSE IF OwnerOffCurve(p.merchant)
                THEN BuildThrow(b, MsgMerchantInvalid(p.merchant))
                ELSE [ b EXCEPT !.pc = "payerAccount",
                                !.amountAtomic = RoundToAtomic(p.amountUsdc),
                                !.payerATA = getAssociatedTokenAddress(UsdcMint(p.network), p.payer),
                                !.merchantATA =
                                    getAssociatedTokenAddress(UsdcMint(p.network), p.merchant),
                                !.rpc = Append(@, "getAccount") ]
    /\ UNCHANGED nonBuildVars

\* token-holder.ts:469-484: getAccount answers; the balance test; the next request
BuildPayerAccount ==
    /\ build.pc = "payerAccount"
    /\ IF build.chain.payerBalance = NoAccount
       THEN \E m \in AccountNotFoundMessages :
              build' = BuildThrow(build, IF Includes(m, <<"could", "not", "find">>)
                                         THEN MsgNoUsdcAccount ELSE m)
       ELSE IF 10 * build.chain.payerBalance < build.params.amountUsdc.e7
       THEN build' = BuildThrow(build, MsgInsufficientUsdc(build.chain.payerBalance,
                                                           build.params.amountUsdc))
       ELSE build' = [ build EXCEPT !.pc = "merchantInfo", !.rpc = Append(@, "getAccountInfo") ]
    /\ UNCHANGED nonBuildVars

MerchantAccountMissing_Unchecked(chain) == FALSE

\* token-holder.ts:485, !merchantAtaInfo
MerchantAccountMissing(chain) == ~chain.merchantAccount

\* token-holder.ts:484-492: getAccountInfo answers; the blockhash request
BuildMerchantInfo ==
    /\ build.pc = "merchantInfo"
    /\ build' = IF MerchantAccountMissing(build.chain)
                THEN BuildThrow(build, MsgMerchantAccountMissing)
                ELSE [ build EXCEPT !.pc = "blockhash", !.rpc = Append(@, "getLatestBlockhash") ]
    /\ UNCHANGED nonBuildVars

\* token-holder.ts:495-509
PaymentInstructions(b) ==
    << [ program |-> "ComputeBudget", type |-> "setComputeUnitLimit", units |-> ComputeUnitLimit ],
       [ program |-> "ComputeBudget", type |-> "setComputeUnitPrice",
         microLamports |-> ComputeUnitPrice ],
       [ program |-> "Token", type |-> "transferChecked", source |-> b.payerATA,
         mint |-> UsdcMint(b.params.network), destination |-> b.merchantATA,
         owner |-> b.params.payer, amount |-> b.amountAtomic, decimals |-> USDC_DECIMALS ] >>

\* token-holder.ts:492-535: the blockhash arrives, the template is assembled
BuildAssemble ==
    /\ build.pc = "blockhash"
    /\ \/ build' = [ build EXCEPT !.pc = "done", !.ok = TRUE,
                                   !.template = [ payerKey |-> PAYAI_FEE_PAYER,
                                                  recentBlockhash |-> blockhash,
                                                  instructions |-> PaymentInstructions(build) ] ]
       \/ /\ build.amountAtomic < 0
          /\ build' = BuildThrow(build, MsgAmountEncoding)
    /\ UNCHANGED nonBuildVars

-----------------------------------------------------------------------------
(* buildRewardTransaction (part_005:551-646) and buildRefundTransaction      *)
(* (part_005:767-848): the unsigned Transaction each of them returns.        *)

Creator        == "C"                   \* params.creator
PlatformWallet == "PW"                  \* params.platformWallet
User           == "U"                   \* params.user
NoReference    == "none"                \* params.reference undefined
NoMemo         == "<undefined>"         \* params.memo undefined
EmptyMemo      == ""                    \* params.memo: the empty string

RewardComputeUnitLimit == 80000
RewardComputeUnitPrice == 500000

AccountMeta(pubkey, isSigner, isWritable) ==
    [ pubkey |-> pubkey, isSigner |-> isSigner, isWritable |-> isWritable ]

Instruction(programId, type, keys, value, data) ==
    [ programId |-> programId, type |-> type, keys |-> keys, value |-> value, data |-> data ]

setComputeUnitLimit(units) == Instruction("ComputeBudget", "setComputeUnitLimit", <<>>, units, "")

setComputeUnitPrice(microLamports) ==
    Instruction("ComputeBudget", "setComputeUnitPrice", <<>>, microLamports, "")

\* @solana/spl-token: payer signs and pays the rent of the new account
createAssociatedTokenAccountInstruction(payer, associatedToken, owner, mint) ==
    Instruction("AssociatedToken", "create",
                << AccountMeta(payer, TRUE, TRUE), AccountMeta(associatedToken, FALSE, TRUE),
                   AccountMeta(owner, FALSE, FALSE), AccountMeta(mint, FALSE, FALSE) >>, 0, "")

\* @solana/spl-token: the owner of the source account signs
createTransferCheckedInstruction(source, mint, destination, owner, amount, decimals) ==
    Instruction("Token", "transferChecked",
                << AccountMeta(source, FALSE, TRUE), AccountMeta(mint, FALSE, FALSE),
                   AccountMeta(destination, FALSE, TRUE), AccountMeta(owner, TRUE, FALSE) >>,
                amount, "")

\* SystemProgram.transfer
SystemTransfer(fromPubkey, toPubkey, lamports) ==
    Instruction("System", "transfer",
                << AccountMeta(fromPubkey, TRUE, TRUE), AccountMeta(toPubkey, FALSE, TRUE) >>,
                lamports, "")

\* transferInstruction.keys.push({ pubkey: reference, isSigner: false, isWritable: false })
PushReference(instruction, reference) ==
    [ instruction EXCEPT !.keys = Append(@, AccountMeta(reference, FALSE, FALSE)) ]

memoInstruction(memo) == Instruction("Memo", "memo", <<>>, 0, memo)

\* if (memo): undefined and the empty string are both falsy
MemoGiven_Never(memo) == FALSE

MemoGiven(memo) == memo # NoMemo /\ memo # EmptyMemo

\* part_005:573-603 / 605-621: the transfer of buildRewardTransaction
RewardTransfer(p) ==
    LET transferInstruction ==
          IF p.tokenMint # NoToken
          THEN createTransferCheckedInstruction(getAssociatedTokenAddress(p.tokenMint, p.payer),
                                                p.tokenMint,
                                                getAssociatedTokenAddress(p.tokenMint, p.user),
                                                p.payer, p.amount, USDC_DECIMALS)
          ELSE SystemTransfer(p.payer, p.user, p.amount)
    IN  IF p.reference # NoReference
        THEN PushReference(transferInstruction, p.reference)
        ELSE transferInstruction

\* part_005:780-824: the transfer of buildRefundTransaction
RefundTransfer(p) ==
    LET transferInstruction ==
          IF p.tokenMint # NoToken
          THEN createTransferCheckedInstruction(getAssociatedTokenAddress(p.tokenMint, p.payer),
                                                p.tokenMint,
                                                getAssociatedTokenAddress(p.tokenMint, p.user),
                                                p.payer, p.amount, USDC_DECIMALS)
          ELSE SystemTransfer(p.payer, p.user, p.amount)
    IN  PushReference(transferInstruction, p.reference)

\* part_005:319-343: the instruction getOrCreateTokenAccount returns, if any
CreateAccountInstructions(p, accountFound) ==
    IF p.tokenMint # NoToken /\ ~accountFound
    THEN << createAssociatedTokenAccountInstruction(
                p.payer, getAssociatedTokenAddress(p.tokenMint, p.user), p.user, p.tokenMint) >>
    ELSE <<>>

MemoInstructions(p) == IF MemoGiven(p.memo) THEN << memoInstruction(p.memo) >> ELSE <<>>

\* part_005:562-632: the instruction list of buildRewardTransaction
RewardInstructions(p, accountFound) ==
    << setComputeUnitLimit(RewardComputeUnitLimit), setComputeUnitPrice(RewardComputeUnitPrice) >>
      \o CreateAccountInstructions(p, accountFound) \o << RewardTransfer(p) >>
      \o MemoInstructions(p)

\* part_005:778-835: the instruction list of buildRefundTransaction
RefundInstructions(p, accountFound) ==
    CreateAccountInstructions(p, accountFound) \o << RefundTransfer(p) >> \o MemoInstructions(p)

NoTransaction == [ feePayer |-> "none", recentBlockhash |-> 0, instructions |-> <<>> ]

TmplUsers == {User, Creator, OffCurve}

TmplMemos == {NoMemo, EmptyMemo, "thanks"}

RewardParams ==
    [ payer : {Creator}, user : TmplUsers, amount : {50000},
      reference : References \cup {NoReference}, memo : TmplMemos, tokenMint : {NoToken, USDC} ]

RefundParams ==
    [ payer : {PlatformWallet}, user : TmplUsers, amount : {50000},
      reference : References, memo : TmplMemos, tokenMint : {NoToken, USDC} ]

NoTmpl ==
    [ fn |-> "none", pc |-> "idle", params |-> CHOOSE p \in RewardParams : TRUE,
      userAccount |-> FALSE, accountFound |-> FALSE, rpc |-> <<>>, ok |-> FALSE,
      transaction |-> NoTransaction ]

nonTmplVars ==
    <<env, ledger, now, pc, call, sig, seen, done, vin, vout, pay, proc, transaction, sent,
      blockhash, build, retry, quote, mcp, extract, split, config>>

\* the call up to its first RPC request: getAccount for a token, else getLatestBlockhash;
\* getAssociatedTokenAddress throws for an owner that is off the curve
TmplStart(fn, p) ==
    LET t == [ tmpl EXCEPT !.fn = fn, !.params = p ]
    IN  tmpl' = IF p.tokenMint = NoToken
                THEN [ t EXCEPT !.pc = "blockhash", !.rpc = Append(@, "getLatestBlockhash") ]
                ELSE IF OwnerOffCurve(p.payer) \/ OwnerOffCurve(p.user)
                THEN [ t EXCEPT !.pc = "done", !.ok = FALSE ]
                ELSE [ t EXCEPT !.pc = "userAccount", !.rpc = Append(@, "getAccount") ]

\* part_005:551-576
CallBuildRewardTransaction ==
    /\ tmpl.pc = "idle"
    /\ \E p \in RewardParams : TmplStart("buildRewardTransaction", p)
    /\ UNCHANGED nonTmplVars

\* part_005:767-783
CallBuildRefundTransaction ==
    /\ tmpl.pc = "idle"
    /\ \E p \in RefundParams : TmplStart("buildRefundTransaction", p)
    /\ UNCHANGED nonTmplVars

\* part_005:329-342: getAccount answers, or fails for any other reason: both failures
\* are taken as "no account"
TmplUserAccount ==
    /\ tmpl.pc = "userAccount"
    /\ \E found \in {tmpl.userAccount, FALSE} :
          tmpl' = [ tmpl EXCEPT !.pc = "blockhash", !.accountFound = found,
                                !.rpc = Append(@, "getLatestBlockhash") ]
    /\ UNCHANGED nonTmplVars

\* part_005:636-645 / 838-847: the blockhash arrives and the Transaction is returned,
\* or the request fails and the call throws
TmplAssemble ==
    /\ tmpl.pc = "blockhash"
    /\ \/ tmpl' = [ tmpl EXCEPT
                      !.pc = "done", !.ok = TRUE,
                      !.transaction =
                          [ feePayer |-> tmpl.params.payer, recentBlockhash |-> blockhash,
                            instructions |->
                                IF tmpl.fn = "buildRewardTransaction"
                                THEN RewardInstructions(tmpl.params, tmpl.accountFound)
                                ELSE RefundInstructions(tmpl.params, tmpl.accountFound) ] ]
       \/ tmpl' = [ tmpl EXCEPT !.pc = "done", !.ok = FALSE ]
    /\ UNCHANGED nonTmplVars

-----------------------------------------------------------------------------
(* withExponentialBackoff, defaultShouldRetry and retrySolanaRpc (part_006). *)
(* Delays are kept in thousandths of a millisecond, so that the jitter, a    *)
(* draw in thousandths, multiplies without rounding.                         *)

\* String.prototype.toLowerCase on the words the error messages are made of
LowerWord(w) ==
    CASE w = "Insufficient" -> "insufficient"
      [] w = "Transfer"     -> "transfer"
      [] w = "Bad"          -> "bad"
      [] w = "Gateway"      -> "gateway"
      [] w = "Too"          -> "too"
      [] w = "Many"         -> "many"
      [] w = "Requests"     -> "requests"
      [] w = "Attempt"      -> "attempt"
      [] w = "USDC"         -> "usdc"
      [] w = "You"          -> "you"
      [] w = "RPC"          -> "rpc"
      [] OTHER              -> w

toLowerCase(message) == [ i \in 1..Len(message) |-> LowerWord(message[i]) ]

\* part_006:93-106
RetryablePatterns ==
    { <<"429">>, <<"500">>, <<"502">>, <<"503">>, <<"504">>, <<"timeout">>, <<"network">>,
      <<"econnreset">>, <<"enotfound">>, <<"blockhash", "not", "found">>,
      <<"node", "is", "behind">>, <<"rpc">> }

\* part_006:111-117
PermanentPatterns ==
    { <<"insufficient">>, <<"invalid">>, <<"not", "found">>, <<"already">>, <<"duplicate">> }

\* a thrown value: an Error with a message, or something else (a string, an object)
Thrown(isError, message) == [ isError |-> isError, message |-> message ]

defaultShouldRetry_Never(error, attempt) == FALSE

\* part_006:87-124
defaultShouldRetry(error, attempt) ==
    IF error.isError
    THEN LET message == toLowerCase(error.message)
         IN  IF \E pat \in RetryablePatterns : Includes(message, pat)
             THEN TRUE
             ELSE IF \E pat \in PermanentPatterns : Includes(message, pat)
             THEN FALSE
             ELSE TRUE
    ELSE TRUE

BadGateway      == Thrown(TRUE, <<"502", "Bad", "Gateway">>)
TooManyRequests == Thrown(TRUE, <<"429", "Too", "Many", "Requests">>)
NoFunds         == Thrown(TRUE, <<"Insufficient", "funds", "for", "fee">>)
\* token-holder.ts:474, for a payer holding 3 USDC who is asked for 500
NoUsdc ==
    Thrown(TRUE, <<"Insufficient", "USDC", "balance", ".", "You", "have", "3", "USDC", "but",
                   "need", "500", "USDC", ".">>)
\* a send refused by the node for lack of funds, as reported by the RPC client
RpcNoFunds ==
    Thrown(TRUE, <<"RPC", "request", "failed", ":", "insufficient", "funds", "for", "rent">>)
DebitError      == Thrown(TRUE, <<"Attempt", "to", "debit", "an", "account">>)
ThrownString    == Thrown(FALSE, <<"insufficient", "funds">>)

RetryErrors ==
    {BadGateway, TooManyRequests, NoFunds, NoUsdc, RpcNoFunds, DebitError, ThrownString}

RECURSIVE Pow(_, _)
Pow(b, n) == IF n = 0 THEN 1 ELSE b * Pow(b, n - 1)

JitterUnit == 1000                      \* thousandths

\* 0.5 + Math.random() * 0.5, in thousandths; the sum rounds to 1 for the largest draw
JitterDraws == {500, 750, 1000}

NextDelay_Uncapped(options, attempt, jitter) ==
    options.initialDelayMs * Pow(options.backoffMultiplier, attempt) * jitter

\* part_006:65-67
NextDelay(options, attempt, jitter) ==
    LET baseDelay == options.initialDelayMs * Pow(options.backoffMultiplier, attempt)
        jitteredDelay == baseDelay * jitter
    IN  Min(jitteredDelay, options.maxDelayMs * JitterUnit)

RetryOption(maxRetries, initialDelayMs, maxDelayMs, backoffMultiplier, customOnRetry) ==
    [ maxRetries |-> maxRetries, initialDelayMs |-> initialDelayMs, maxDelayMs |-> maxDelayMs,
      backoffMultiplier |-> backoffMultiplier, customOnRetry |-> customOnRetry ]

\* part_006:28-35
DefaultRetryOptions == RetryOption(3, 1000, 30000, 2, FALSE)

\* part_006:159-163
SolanaRpcRetryOptions == RetryOption(3, 500, 10000, 2, FALSE)

\* the options a caller passes to withExponentialBackoff
RetryOptions ==
    { DefaultRetryOptions, RetryOption(2, 1000, 1500, 2, TRUE), RetryOption(0, 1000, 30000, 2, TRUE),
      RetryOption(1, 0, 30000, 2, FALSE), RetryOption(2, 1000, 30000, 1, FALSE) }

\* the options a caller passes to retrySolanaRpc: onRetry given or not, maxRetries overridden or not
SolanaRpcOverrides ==
    { SolanaRpcRetryOptions, [ SolanaRpcRetryOptions EXCEPT !.customOnRetry = TRUE ],
      [ SolanaRpcRetryOptions EXCEPT !.maxRetries = 1, !.customOnRetry = TRUE ] }

NoRetry ==
    [ fn |-> "none", pc |-> "idle", options |-> DefaultRetryOptions, attempt |-> 0,
      invocations |-> 0, delays |-> <<>>, onRetry |-> 0, customOnRetry |-> 0,
      errors |-> <<>>, thrown |-> Thrown(FALSE, <<>>), ok |-> FALSE ]

LastAttempt_OneMore(options, attempt) == attempt = options.maxRetries + 1

\* part_006:46
LastAttempt(options, attempt) == attempt = options.maxRetries

nonRetryVars ==
    <<env, ledger, now, pc, call, sig, seen, done, vin, vout, pay, proc, transaction, sent,
      blockhash, build, tmpl, quote, mcp, extract, split, config>>

\* part_006:24-39
CallWithExponentialBackoff ==
    /\ retry.pc = "idle"
    /\ \E o \in RetryOptions :
          retry' = [ retry EXCEPT !.fn = "withExponentialBackoff", !.pc = "calling",
                                  !.options = o ]
    /\ UNCHANGED nonRetryVars

\* part_006:154-178
CallRetrySolanaRpc ==
    /\ retry.pc = "idle"
    /\ \E o \in SolanaRpcOverrides :
          retry' = [ retry EXCEPT !.fn = "retrySolanaRpc", !.pc = "calling", !.options = o ]
    /\ UNCHANGED nonRetryVars

\* part_006:41: fn() resolves and its value is returned
RetryFnResolves ==
    /\ retry.pc = "calling"
    /\ retry' = [ retry EXCEPT !.pc = "done", !.ok = TRUE, !.invocations = @ + 1 ]
    /\ UNCHANGED nonRetryVars

\* part_006:42-73: fn() rejects; the error is rethrown, or a delay is computed,
\* onRetry is told and the sleep begins
RetryFnRejects ==
    /\ retry.pc = "calling"
    /\ \E error \in RetryErrors, jitter \in JitterDraws :
          LET r == [ retry EXCEPT !.invocations = @ + 1, !.errors = Append(@, error) ]
              nextDelay == NextDelay(retry.options, retry.attempt, jitter)
          IN  retry' =
                IF LastAttempt(retry.options, retry.attempt)
                THEN [ r EXCEPT !.pc = "done", !.ok = FALSE, !.thrown = error ]
                ELSE IF ~defaultShouldRetry(error, retry.attempt)
                THEN [ r EXCEPT !.pc = "done", !.ok = FALSE, !.thrown = error ]
                ELSE [ r EXCEPT !.pc = "sleeping", !.delays = Append(@, nextDelay),
                                !.onRetry = @ + 1,
                                !.customOnRetry =
                                    IF retry.options.customOnRetry THEN @ + 1 ELSE @ ]
    /\ UNCHANGED nonRetryVars

\* part_006:73, 39: the sleep ends, the next attempt begins
RetryWake ==
    /\ retry.pc = "sleeping"
    /\ retry' = [ retry EXCEPT !.pc = "calling", !.attempt = @ + 1 ]
    /\ UNCHANGED nonRetryVars

-----------------------------------------------------------------------------------------------------------------------------------------------------
(* JavaScript numbers.  A non-negative double is kept as m * 2^e with m a    *)
(* natural number of at most 53 bits, written in digits of 15 bits, lowest   *)
(* first.  The form is unique: m is odd, or the number is zero and e = 0.    *)

MantissaBits == 53                      \* IEEE 754 binary64 significand
DigitBits    == 15
DigitBase    == Pow(2, DigitBits)

Max(a, b) == IF a > b THEN a ELSE b

Digit(a, i) == IF 1 <= i /\ i <= Len(a) THEN a[i] ELSE 0

\* drops the zero digits at the high end
RECURSIVE Trim(_)
Trim(a) ==
    IF a = <<>> THEN <<>>
    ELSE IF a[Len(a)] = 0 THEN Trim(SubSeq(a, 1, Len(a) - 1)) ELSE a

NatOfSmall(n) == Trim(<<n % DigitBase, n \div DigitBase>>)

RECURSIVE AddFrom(_, _, _, _)
AddFrom(a, b, i, carry) ==
    IF i > Max(Len(a), Len(b))
    THEN IF carry = 1 THEN <<1>> ELSE <<>>
    ELSE LET t == Digit(a, i) + Digit(b, i) + carry
         IN  <<t % DigitBase>> \o AddFrom(a, b, i + 1, t \div DigitBase)

NatAdd(a, b) == AddFrom(a, b, 1, 0)

\* a - b for a >= b
RECURSIVE SubFrom(_, _, _, _)
SubFrom(a, b, i, borrow) ==
    IF i > Len(a)
    THEN <<>>
    ELSE LET t == Digit(a, i) - Digit(b, i) - borrow
         IN  <<(t + DigitBase) % DigitBase>> \o SubFrom(a, b, i + 1, IF t < 0 THEN 1 ELSE 0)

NatSub(a, b) == Trim(SubFrom(a, b, 1, 0))

\* a < b, for numbers without high zero digits
RECURSIVE LessFrom(_, _, _)
LessFrom(a, b, i) ==
    IF i = 0 THEN FALSE
    ELSE IF a[i] # b[i] THEN a[i] < b[i]
    ELSE LessFrom(a, b, i - 1)

NatLess(a, b) ==
    IF Len(a) # Len(b) THEN Len(a) < Len(b) ELSE LessFrom(a, b, Len(a))

\* a * d for one digit d
RECURSIVE MulDigitFrom(_, _, _, _)
MulDigitFrom(a, d, i, carry) ==
    IF i > Len(a)
    THEN IF carry > 0 THEN <<carry>> ELSE <<>>
    ELSE LET t == a[i] * d + carry
         IN  <<t % DigitBase>> \o MulDigitFrom(a, d, i + 1, t \div DigitBase)

RECURSIVE NatMul(_, _)
NatMul(a, b) ==
    IF a = <<>> \/ b = <<>> THEN <<>>
    ELSE Trim(NatAdd(MulDigitFrom(b, a[1], 1, 0), <<0>> \o NatMul(Tail(a), b)))

\* the number of bits of a digit
DigitLength(d) == IF d = 0 THEN 0 ELSE CHOOSE k \in 1..DigitBits : Pow(2, k - 1) <= d /\ d < Pow(2, k)

BitLength(a) == IF a = <<>> THEN 0 ELSE DigitBits * (Len(a) - 1) + DigitLength(a[Len(a)])

\* bit i of a, the lowest being bit 0
BitAt(a, i) == (Digit(a, i \div DigitBits + 1) \div Pow(2, i % DigitBits)) % 2

\* a \div 2^k
ShiftRight(a, k) ==
    LET q == k \div DigitBits
        r == k % DigitBits
    IN  Trim([ i \in 1..Max(Len(a) - q, 0) |->
                 Digit(a, q + i) \div Pow(2, r)
                   + (Digit(a, q + i + 1) % Pow(2, r)) * Pow(2, DigitBits - r) ])

\* a * 2^k
ShiftLeft(a, k) ==
    LET q == k \div DigitBits
        r == k % DigitBits
    IN  Trim([ i \in 1..(Len(a) + q + 1) |->
                 (Digit(a, i - q) % Pow(2, DigitBits - r)) * Pow(2, r)
                   + Digit(a, i - q - 1) \div Pow(2, DigitBits - r) ])

\* some bit below bit k is set
LowBitsSet(a, k) == \E i \in 0..(k - 1) : BitAt(a, i) = 1

\* the unique form of m * 2^e
Canon(m, e) ==
    IF m = <<>> THEN [ m |-> <<>>, e |-> 0 ]
    ELSE LET z == CHOOSE k \in 0..BitLength(m) : BitAt(m, k) = 1 /\ ~LowBitsSet(m, k)
         IN  [ m |-> ShiftRight(m, z), e |-> e + z ]

\* the double nearest to m * 2^e, ties to the even significand
RoundDouble(m, e) ==
    IF BitLength(m) <= MantissaBits
    THEN Canon(m, e)
    ELSE LET k == BitLength(m) - MantissaBits
             kept == ShiftRight(m, k)
             roundUp == BitAt(m, k - 1) = 1 /\ (LowBitsSet(m, k - 1) \/ BitAt(m, k) = 1)
         IN  Canon(IF roundUp THEN NatAdd(kept, <<1>>) ELSE kept, e + k)

DoubleZero == [ m |-> <<>>, e |-> 0 ]

\* both numbers over the smaller exponent
Aligned(x, y) ==
    LET e == Min(x.e, y.e)
    IN  [ x |-> ShiftLeft(x.m, x.e - e), y |-> ShiftLeft(y.m, y.e - e), e |-> e ]

DoubleLess(x, y) == LET a == Aligned(x, y) IN NatLess(a.x, a.y)

\* x * y
DoubleMul(x, y) == RoundDouble(NatMul(x.m, y.m), x.e + y.e)

\* x + y
DoubleAdd(x, y) == LET a == Aligned(x, y) IN RoundDouble(NatAdd(a.x, a.y), a.e)

\* Math.max(0, x - y)
DoubleSubMax0(x, y) ==
    LET a == Aligned(x, y)
    IN  IF NatLess(a.x, a.y) THEN DoubleZero ELSE RoundDouble(NatSub(a.x, a.y), a.e)

\* the digits of num \div q, highest first, and the remainder; num is given highest
\* digit first, q is small
RECURSIVE LongDiv(_, _, _, _)
LongDiv(num, q, i, r) ==
    IF i > Len(num)
    THEN [ q |-> <<>>, r |-> r ]
    ELSE LET t == r * DigitBase + num[i]
             rest == LongDiv(num, q, i + 1, t % q)
         IN  [ q |-> <<t \div q>> \o rest.q, r |-> rest.r ]

DivisionDigits == 5                     \* quotient digits computed below the point

\* p / q for small naturals: the quotient to DivisionDigits digits below the point, a
\* last bit telling whether anything was left over, then rounded
DoubleDiv(p, q) ==
    LET d == LongDiv(<<p>> \o [ i \in 1..DivisionDigits |-> 0 ], q, 1, 0)
        inexact == IF d.r # 0 THEN 1 ELSE 0
    IN  RoundDouble(NatAdd(ShiftLeft(Trim(Reverse(d.q)), 1), NatOfSmall(inexact)),
                    0 - DigitBits * DivisionDigits - 1)

DoubleOfNat(n) == Canon(NatOfSmall(n), 0)

\* the natural number written by the decimal digits, highest first
RECURSIVE NatOfDecimal(_)
NatOfDecimal(digits) ==
    IF digits = <<>> THEN <<>>
    ELSE NatAdd(MulDigitFrom(NatOfDecimal(SubSeq(digits, 1, Len(digits) - 1)), 10, 1, 0),
                NatOfSmall(digits[Len(digits)]))

DoubleOfDecimal(digits) == RoundDouble(NatOfDecimal(digits), 0)

-----------------------------------------------------------------------------
(* getB402HolderTier and applyB402Discount (token-holder.ts:97-233).  A raw  *)
(* balance is tokens * 10^9 + nano; Number(rawBalance) / 10^9 reaches a      *)
(* threshold exactly when its whole tokens do.                               *)

B402_DECIMALS == 9

Tiers == <<"NONE", "BRONZE", "SILVER", "GOLD", "DIAMOND">>

TierRank(t) == CHOOSE i \in 1..Len(Tiers) : Tiers[i] = t

\* token-holder.ts:54-59
TIER_THRESHOLDS == [ BRONZE |-> 1000, SILVER |-> 10000, GOLD |-> 50000, DIAMOND |-> 100000 ]

\* token-holder.ts:62-88; bonusMultiplier in hundredths
Benefits(slotDiscount, slotBonus, freeSpins, lotDiscount, bonusEntries, winBoost, feeDiscount, priority, branding) ==
    [ slotMachine |-> [ discountPercent |-> slotDiscount, bonusMultiplier |-> slotBonus,
                        freeSpinsDaily |-> freeSpins ],
      lottery |-> [ discountPercent |-> lotDiscount, bonusEntries |-> bonusEntries,
                    winBoostPercent |-> winBoost ],
      blinks |-> [ creatorFeeDiscount |-> feeDiscount, priorityExecution |-> priority,
                   customBranding |-> branding ] ]

TIER_BENEFITS ==
    [ NONE    |-> Benefits(0, 100, 0, 0, 0, 0, 0, FALSE, FALSE),
      BRONZE  |-> Benefits(5, 105, 1, 5, 0, 5, 10, FALSE, FALSE),
      SILVER  |-> Benefits(10, 110, 3, 10, 1, 10, 20, FALSE, TRUE),
      GOLD    |-> Benefits(15, 115, 5, 15, 2, 15, 30, TRUE, TRUE),
      DIAMOND |-> Benefits(20, 125, 10, 20, 5, 25, 50, TRUE, TRUE) ]

RawBalance(tokens, nano) == [ tokens |-> tokens, nano |-> nano ]

MaxNano == Pow(10, B402_DECIMALS) - 1

\* balance >= threshold for balance = Number(rawBalance) / Math.pow(10, B402_DECIMALS)
AtLeast(rawBalance, threshold) == rawBalance.tokens >= threshold

TierFor_Strict(rawBalance) ==
    IF rawBalance.tokens > TIER_THRESHOLDS.DIAMOND THEN "DIAMOND"
    ELSE IF rawBalance.tokens > TIER_THRESHOLDS.GOLD THEN "GOLD"
    ELSE IF rawBalance.tokens > TIER_THRESHOLDS.SILVER THEN "SILVER"
    ELSE IF rawBalance.tokens > TIER_THRESHOLDS.BRONZE THEN "BRONZE"
    ELSE "NONE"

\* token-holder.ts:115-124
TierFor(rawBalance) ==
    IF AtLeast(rawBalance, TIER_THRESHOLDS.DIAMOND) THEN "DIAMOND"
    ELSE IF AtLeast(rawBalance, TIER_THRESHOLDS.GOLD) THEN "GOLD"
    ELSE IF AtLeast(rawBalance, TIER_THRESHOLDS.SILVER) THEN "SILVER"
    ELSE IF AtLeast(rawBalance, TIER_THRESHOLDS.BRONZE) THEN "BRONZE"
    ELSE "NONE"

HolderInfo(t, rawBalance) ==
    [ tier |-> t, rawBalance |-> rawBalance, benefits |-> TIER_BENEFITS[t] ]

\* token-holder.ts:147-152, 161-166, 175-180
NoHolding == HolderInfo("NONE", RawBalance(0, 0))

GameTypes == {"slotMachine", "lottery", "blinks"}

\* token-holder.ts:207-212
DiscountPercent(benefits, gameType) ==
    IF gameType = "slotMachine" \/ gameType = "lottery"
    THEN benefits[gameType].discountPercent
    ELSE IF gameType = "blinks" THEN benefits[gameType].creatorFeeDiscount
    ELSE 0

Percent == 100

\* token-holder.ts:214-232; basePrice is a double
DiscountQuote(basePrice, holderInfo, gameType) ==
    LET discountPercent == DiscountPercent(holderInfo.benefits, gameType)
        discountAmount == DoubleMul(basePrice, DoubleDiv(discountPercent, Percent))
        discountedPrice == DoubleSubMax0(basePrice, discountAmount)
    IN  [ discountedPrice |-> discountedPrice, originalPrice |-> basePrice,
          tier |-> holderInfo.tier, savings |-> discountAmount,
          discountPercent |-> discountPercent ]

NoQuoteResult == DiscountQuote(DoubleZero, NoHolding, "blinks")

\* the wallets looked up: the raw balance of the B402 account
HolderBalances ==
    { RawBalance(0, 0), RawBalance(0, 1), RawBalance(999, 0), RawBalance(999, MaxNano),
      RawBalance(1000, 0), RawBalance(9999, 0), RawBalance(9999, MaxNano), RawBalance(10000, 0),
      RawBalance(15000, 0), RawBalance(49999, MaxNano), RawBalance(50000, 0),
      RawBalance(99999, MaxNano), RawBalance(100000, 0), RawBalance(150000, 5) }

\* base prices in whole atomic units, written in decimal
BasePrices ==
    { <<0>>, <<1>>, <<3>>, <<1, 3>>, <<5, 0, 0, 0, 0>>, <<1, 0, 0, 0, 0, 0, 0>>,
      <<4, 5, 0, 3, 5, 9, 9, 6, 2, 7, 3, 7, 0, 4, 9, 7>>,
      <<5, 0, 0, 4, 0, 4, 1, 2, 7, 9, 9, 1, 7, 8, 4, 5>>,
      <<5, 6, 2, 9, 5, 1, 0, 8, 6, 0, 3, 1, 1, 8, 7, 7>>,
      <<6, 7, 5, 5, 4, 0, 9, 5, 1, 2, 8, 0, 6, 7, 2, 9>> }

\* what getAccount does for the wallet: the account, no account, or a failing request
LookupOutcomes(account) == (IF account.exists THEN {"account"} ELSE {"notFound"}) \cup {"rpcError"}

NoQuote ==
    [ fn |-> "none", pc |-> "idle", walletValid |-> TRUE,
      account |-> [ exists |-> FALSE, rawBalance |-> RawBalance(0, 0) ],
      basePrice |-> <<0>>, gameType |-> "blinks", lookup |-> "none", info |-> NoHolding,
      result |-> NoQuoteResult ]

nonQuoteVars ==
    <<env, ledger, now, pc, call, sig, seen, done, vin, vout, pay, proc, transaction, sent,
      blockhash, build, tmpl, retry, mcp, extract, split, config>>

\* token-holder.ts:101-110: new PublicKey(walletAddress) throws for an invalid address
\* and the tier is NONE; else getAccount is requested
HolderTierStart(q) ==
    IF q.walletValid
    THEN [ q EXCEPT !.pc = "getAccount" ]
    ELSE [ q EXCEPT !.pc = IF q.fn = "applyB402Discount" THEN "quote" ELSE "done",
                    !.lookup = "invalid", !.info = NoHolding ]

\* token-holder.ts:97-103
CallGetB402HolderTier ==
    /\ quote.pc = "idle"
    /\ \E valid \in BOOLEAN :
          quote' = HolderTierStart([ quote EXCEPT !.fn = "getB402HolderTier",
                                                  !.walletValid = valid ])
    /\ UNCHANGED nonQuoteVars

\* token-holder.ts:192-203
CallApplyB402Discount ==
    /\ quote.pc = "idle"
    /\ \E valid \in BOOLEAN, basePrice \in BasePrices, gameType \in GameTypes :
          quote' = HolderTierStart([ quote EXCEPT !.fn = "applyB402Discount",
                                                  !.walletValid = valid,
                                                  !.basePrice = basePrice,
                                                  !.gameType = gameType ])
    /\ UNCHANGED nonQuoteVars

LookupInfo_TrustAccount(outcome, account) ==
    IF account.exists THEN HolderInfo(TierFor(account.rawBalance), account.rawBalance)
    ELSE NoHolding

\* token-holder.ts:110-167: the tier of the balance read, or NONE after any error
LookupInfo(outcome, account) ==
    IF outcome = "account" THEN HolderInfo(TierFor(account.rawBalance), account.rawBalance)
    ELSE NoHolding

\* token-holder.ts:110-167: getAccount answers
HolderTierResolve ==
    /\ quote.pc = "getAccount"
    /\ \E outcome \in LookupOutcomes(quote.account) :
          quote' = [ quote EXCEPT
                       !.pc = IF quote.fn = "applyB402Discount" THEN "quote" ELSE "done",
                       !.lookup = outcome,
                       !.info = LookupInfo(outcome, quote.account) ]
    /\ UNCHANGED nonQuoteVars

\* token-holder.ts:204-232
ApplyDiscount ==
    /\ quote.pc = "quote"
    /\ quote' = [ quote EXCEPT
                    !.pc = "done",
                    !.result = DiscountQuote(DoubleOfDecimal(quote.basePrice), quote.info,
                                             quote.gameType) ]
    /\ UNCHANGED nonQuoteVars

-----------------------------------------------------------------------------
(* The call_tool handler of the MCP server (part_010:149-427) over the       *)
(* backend client (part_009).  Money is in whole dollars; a ratio a / b is   *)
(* compared by cross-multiplication.                                         *)

\* part_010:39-139
TOOLS ==
    {"check_b402_tier", "list_blinks", "execute_blink", "buy_b402", "recommend_b402_purchase"}

ToolNames == TOOLS \cup {"delete_blink"}

\* the requests the handler of a tool starts with, in order
EndpointsOf(name) ==
    CASE name = "check_b402_tier"         -> <<"holder-info">>
      [] name = "list_blinks"             -> <<"holder-info", "blinks">>
      [] name = "execute_blink"           -> <<"blink", "holder-info", "discount">>
      [] name = "buy_b402"                -> <<"holder-info">>
      [] name = "recommend_b402_purchase" -> <<"holder-info">>
      [] OTHER                            -> <<>>

\* part_009:90-116: how one request ends
FetchOutcomes == {"ok", "apiError", "timeout", "networkError", "malformed"}

\* part_009:105, 112, and the errors of fetch and of reading a field of undefined
FetchErrorMessage(outcome) ==
    CASE outcome = "apiError"     -> <<"API", "error", "(", "503", ")", ":", "unavailable">>
      [] outcome = "timeout"      -> <<"API", "request", "timeout">>
      [] outcome = "networkError" -> <<"request", "failed", "reason", ":", "ECONNREFUSED">>
      [] OTHER                    -> <<"Cannot", "read", "properties", "of", "undefined">>

\* part_010:411
MsgUnknownTool(name) == <<"Unknown", "tool", ":", name>>

\* part_010:352-365: percent saved, and cost * 250 in dollars
RecommendTiers == <<"BRONZE", "SILVER", "GOLD", "DIAMOND">>

SavingsPercent == [ BRONZE |-> 10, SILVER |-> 20, GOLD |-> 30, DIAMOND |-> 50 ]

EstimatedCostUsd == [ BRONZE |-> 5, SILVER |-> 50, GOLD |-> 250, DIAMOND |-> 500 ]

BreakevenMonthsLimit == 6

\* part_010:368-385: months_to_breakeven is costNum / savingsDen, infinite when the
\* savings are zero
Recommendation(tierName, spend) ==
    LET costNum == EstimatedCostUsd[tierName] * Percent
        savingsDen == spend * SavingsPercent[tierName]
    IN  [ tier |-> tierName, costNum |-> costNum, savingsDen |-> savingsDen,
          recommended |-> savingsDen > 0 /\ costNum < BreakevenMonthsLimit * savingsDen ]

Recommendations(spend) == [ i \in 1..Len(RecommendTiers) |-> Recommendation(RecommendTiers[i], spend) ]

\* a.months_to_breakeven < b.months_to_breakeven, both recommended
SoonerBreakeven(a, b) == a.costNum * b.savingsDen < b.costNum * a.savingsDen

NoBestOption == "message"               \* best_option is the { message } object

\* part_010:387-389, 400: the first of the recommended entries sorted by months_to_breakeven
BestOption(recommendations) ==
    LET idx == { i \in 1..Len(recommendations) : recommendations[i].recommended }
    IN  IF idx = {} THEN NoBestOption
        ELSE recommendations[
                 CHOOSE i \in idx :
                   \A j \in idx \ {i} :
                     \/ SoonerBreakeven(recommendations[i], recommendations[j])
                     \/ /\ ~SoonerBreakeven(recommendations[j], recommendations[i])
                        /\ i < j ].tier

MonthlySpends == {-10, 0, 2, 9, 25, 50, 100, 200}

BackendTiers == {"NONE", "BRONZE"}

BackendBlinks == {0, 2}                 \* blinks the backend lists

ToolArgs == [ wallet : {Payer}, expected_monthly_spend : MonthlySpends ]

NoResponse ==
    [ fields |-> {}, isError |-> FALSE, error |-> <<>>, tool |-> "",
      current_tier |-> "", best_option |-> "" ]

NoMcp ==
    [ pc |-> "idle", name |-> "", args |-> CHOOSE a \in ToolArgs : TRUE, backendTier |-> "NONE",
      blinks |-> 0, pending |-> <<>>, requests |-> <<>>, raised |-> <<>>, escaped |-> FALSE,
      response |-> NoResponse ]

nonMcpVars ==
    <<env, ledger, now, pc, call, sig, seen, done, vin, vout, pay, proc, transaction, sent,
      blockhash, build, tmpl, retry, quote, extract, split, config>>

McpThrow_Propagate(m, message) ==
    [ m EXCEPT !.pc = "done", !.raised = message, !.escaped = TRUE ]

\* part_010:411, part_009:105-114 caught at part_010:413-426: the exception raised
\* inside the try block, and the response the catch block returns
McpThrow(m, message) ==
    [ m EXCEPT !.pc = "done", !.raised = message,
               !.response = [ NoResponse EXCEPT !.fields = {"content", "isError"},
                                                !.isError = TRUE, !.error = message,
                                                !.tool = m.name ] ]

\* part_010:164-186, 222-234, 274-281, 333-340, 391-407: the value returned by a case
McpReturn(m) ==
    [ m EXCEPT !.pc = "done",
               !.response =
                   [ NoResponse EXCEPT
                       !.fields = {"content"},
                       !.current_tier = m.backendTier,
                       !.best_option =
                           IF m.name = "recommend_b402_purchase"
                           THEN BestOption(Recommendations(m.args.expected_monthly_spend))
                           ELSE "" ] ]

\* part_010:149-156: the request arrives; an unknown name throws at once
CallTool ==
    /\ mcp.pc = "idle"
    /\ \E name \in ToolNames, args \in ToolArgs :
          LET m == [ mcp EXCEPT !.name = name, !.args = args ]
          IN  mcp' = IF name \in TOOLS
                     THEN [ m EXCEPT !.pc = "fetching", !.pending = EndpointsOf(name) ]
                     ELSE McpThrow(m, MsgUnknownTool(name))
    /\ UNCHANGED nonMcpVars

\* part_009:90-116 inside a case of part_010:153-408: the next request ends; when it
\* was the last one the case returns its content
ToolFetch ==
    /\ mcp.pc = "fetching"
    /\ \E outcome \in FetchOutcomes :
          LET endpoint == Head(mcp.pending)
              m == [ mcp EXCEPT !.requests = Append(@, endpoint) ]
              rest == IF mcp.name = "list_blinks" /\ endpoint = "blinks"
                      THEN [ i \in 1..mcp.blinks |-> "discount" ]
                      ELSE Tail(mcp.pending)
          IN  mcp' = IF outcome # "ok"
                     THEN McpThrow(m, FetchErrorMessage(outcome))
                     ELSE IF rest = <<>>
                     THEN McpReturn(m)
                     ELSE [ m EXCEPT !.pending = rest ]
    /\ UNCHANGED nonMcpVars

-----------------------------------------------------------------------------
(* buildSolTransferTransaction (part_005:354-425) and                        *)
(* buildUsdcTransferTransaction (part_005:436-530): the platform-fee split.  *)
(* Amounts are bigints, kept as natural numbers in digits.                   *)

NoWallet == "<undefined>"               \* params.platformWallet undefined

BasisPoints == 10000

\* BigInt division by a small divisor, truncating
NatDivSmall(a, q) == Trim(Reverse(LongDiv(Reverse(a), q, 1, 0).q))

\* if (platformWallet && platformFeeBps > 0)
FeeApplies(platformWallet, platformFeeBps) == platformWallet # NoWallet /\ platformFeeBps > 0

\* part_005:369-376 / 455-462
SplitAmounts(amount, platformWallet, platformFeeBps) ==
    IF FeeApplies(platformWallet, platformFeeBps)
    THEN LET platformAmount == NatDivSmall(NatMul(amount, NatOfSmall(platformFeeBps)), BasisPoints)
         IN  [ creatorAmount |-> NatSub(amount, platformAmount), platformAmount |-> platformAmount ]
    ELSE [ creatorAmount |-> amount, platformAmount |-> <<>> ]

PlatformTransferDue_Always(platformWallet, platformAmount) == platformWallet # NoWallet

\* part_005:395, 490: if (platformWallet && platformAmount > BigInt(0))
PlatformTransferDue(platformWallet, platformAmount) ==
    platformWallet # NoWallet /\ platformAmount # <<>>

\* Number(bigint)
NumberOfBigInt(n) == RoundDouble(n, 0)

\* part_005:378-402: the transfers of buildSolTransferTransaction
SolSplitInstructions(p, a) ==
    << PushReference(SystemTransfer(p.sender, p.recipient, NumberOfBigInt(a.creatorAmount)),
                     p.reference) >>
      \o (IF PlatformTransferDue(p.platformWallet, a.platformAmount)
          THEN << SystemTransfer(p.sender, p.platformWallet, NumberOfBigInt(a.platformAmount)) >>
          ELSE <<>>)
      \o MemoInstructions(p)

\* getOrCreateTokenAccount(connection, sender, owner, usdcMint).instruction
SplitCreateAccount(p, owner, found) ==
    IF found THEN <<>>
    ELSE << createAssociatedTokenAccountInstruction(
                p.sender, getAssociatedTokenAddress(USDC, owner), owner, USDC) >>

SplitTokenTransfer(p, owner, amount) ==
    createTransferCheckedInstruction(getAssociatedTokenAddress(USDC, p.sender), USDC,
                                     getAssociatedTokenAddress(USDC, owner), p.sender, amount,
                                     USDC_DECIMALS)

\* part_005:464-507: the instructions of buildUsdcTransferTransaction
UsdcSplitInstructions(p, a, recipientFound, platformFound) ==
    SplitCreateAccount(p, p.recipient, recipientFound)
      \o << PushReference(SplitTokenTransfer(p, p.recipient, a.creatorAmount), p.reference) >>
      \o (IF PlatformTransferDue(p.platformWallet, a.platformAmount)
          THEN SplitCreateAccount(p, p.platformWallet, platformFound)
                 \o << SplitTokenTransfer(p, p.platformWallet, a.platformAmount) >>
          ELSE <<>>)
      \o MemoInstructions(p)

\* amounts in atomic units, written in decimal
SplitAmountsGiven ==
    { <<0>>, <<1>>, <<3, 9, 9, 9>>, <<1, 0, 0, 0, 0>>, <<1, 0, 0, 0, 0, 0, 0>>,
      <<1, 2, 3, 4, 5, 6, 7, 8, 9>>, <<9, 0, 0, 7, 1, 9, 9, 2, 5, 4, 7, 4, 0, 9, 9, 3>> }

SplitFeeBps == {0, 1, 250, 3333, 10000}

SplitParams ==
    [ sender : {Payer}, recipient : {Merchant}, amount : SplitAmountsGiven,
      reference : {"R1"}, memo : {NoMemo, "thanks"}, platformWallet : {NoWallet, PlatformWallet},
      platformFeeBps : SplitFeeBps ]

NoSplit ==
    [ fn |-> "none", pc |-> "idle", params |-> CHOOSE p \in SplitParams : TRUE,
      recipientAccount |-> FALSE, platformAccount |-> FALSE,
      recipientFound |-> FALSE, platformFound |-> FALSE,
      amounts |-> SplitAmounts(<<>>, NoWallet, 0), ok |-> FALSE, instructions |-> <<>> ]

nonSplitVars ==
    <<env, ledger, now, pc, call, sig, seen, done, vin, vout, pay, proc, transaction, sent,
      blockhash, build, tmpl, retry, quote, mcp, extract, config>>

\* part_005:354-415: the split, the instructions, then the blockhash request
CallBuildSolTransferTransaction ==
    /\ split.pc = "idle"
    /\ \E p \in SplitParams :
          split' = [ split EXCEPT
                       !.fn = "buildSolTransferTransaction", !.pc = "blockhash", !.params = p,
                       !.amounts = SplitAmounts(NatOfDecimal(p.amount), p.platformWallet,
                                                p.platformFeeBps) ]
    /\ UNCHANGED nonSplitVars

\* part_005:436-468: the split, then the lookup of the recipient's token account
CallBuildUsdcTransferTransaction ==
    /\ split.pc = "idle"
    /\ \E p \in SplitParams :
          split' = [ split EXCEPT
                       !.fn = "buildUsdcTransferTransaction", !.pc = "recipientAccount",
                       !.params = p,
                       !.amounts = SplitAmounts(NatOfDecimal(p.amount), p.platformWallet,
                                                p.platformFeeBps) ]
    /\ UNCHANGED nonSplitVars

\* part_005:468-491: getOrCreateTokenAccount for the recipient answers (any error counts
\* as "no account"); the platform's account is looked up when a fee is due
SplitRecipientAccount ==
    /\ split.pc = "recipientAccount"
    /\ \E found \in {split.recipientAccount, FALSE} :
          split' = [ split EXCEPT
                       !.recipientFound = found,
                       !.pc = IF PlatformTransferDue(split.params.platformWallet,
                                                     split.amounts.platformAmount)
                              THEN "platformAccount" ELSE "blockhash" ]
    /\ UNCHANGED nonSplitVars

\* part_005:491-496: getOrCreateTokenAccount for the platform wallet answers
SplitPlatformAccount ==
    /\ split.pc = "platformAccount"
    /\ \E found \in {split.platformAccount, FALSE} :
          split' = [ split EXCEPT !.platformFound = found, !.pc = "blockhash" ]
    /\ UNCHANGED nonSplitVars

\* part_005:415-425 / 520-530: the blockhash arrives and the Transaction is returned, or
\* the request fails and the call throws
SplitAssemble ==
    /\ split.pc = "blockhash"
    /\ \/ split' = [ split EXCEPT
                       !.pc = "done", !.ok = TRUE,
                       !.instructions =
                           IF split.fn = "buildSolTransferTransaction"
                           THEN SolSplitInstructions(split.params, split.amounts)
                           ELSE UsdcSplitInstructions(split.params, split.amounts,
                                                      split.recipientFound,
                                                      split.platformFound) ]
       \/ split' = [ split EXCEPT !.pc = "done", !.ok = FALSE ]
    /\ UNCHANGED nonSplitVars

-----------------------------------------------------------------------------
(* getEnv (part_003:118-129): the module-level cache of the validated        *)
(* config.  Config objects live in a heap, so that "the same object" is the  *)
(* same heap index.                                                          *)

MaxEnvCalls == 3        \* getEnv calls the process makes

\* process.env while getEnv is in use: required variables may be missing or empty
ProcessEnvs ==
    [ NODE_ENV : {"production", Unset}, MOCK_PAYMENTS : {"true", Unset},
      DATABASE_URL : {"postgres", Unset, ""}, ONCHAIN_API_KEY : {"key"} ]

\* let cachedEnv: EnvConfig | null = null; <<>> is null, <<i>> the i-th object of the heap
NoConfig ==
    [ cachedEnv |-> <<>>, heap |-> <<>>, validations |-> 0, returned |-> <<>> ]

CacheEmpty_Always(cachedEnv) == TRUE

\* part_003:125, if (!cachedEnv)
CacheEmpty(cachedEnv) == cachedEnv = <<>>

\* part_003:124-129: the state of the module after one getEnv() call under process.env e
getEnv(c, e) ==
    IF CacheEmpty(c.cachedEnv)
    THEN LET validated == validateEnv(e)
         IN  IF validated.threw
             THEN [ c EXCEPT !.validations = @ + 1,
                             !.returned = Append(@, [ threw |-> TRUE, object |-> <<>>, env |-> e ]) ]
             ELSE [ c EXCEPT !.validations = @ + 1,
                             !.heap = Append(@, validated),
                             !.cachedEnv = << Len(c.heap) + 1 >>,
                             !.returned = Append(@, [ threw |-> FALSE,
                                                      object |-> << Len(c.heap) + 1 >>,
                                                      env |-> e ]) ]
    ELSE [ c EXCEPT !.returned = Append(@, [ threw |-> FALSE, object |-> c.cachedEnv, env |-> e ]) ]

nonEnvVars ==
    <<ledger, now, pc, call, sig, seen, done, vin, vout, pay, proc, transaction, sent,
      blockhash, build, tmpl, retry, quote, mcp, extract, split>>

\* part_003:124: one call of getEnv
CallGetEnv ==
    /\ Len(config.returned) < MaxEnvCalls
    /\ config' = getEnv(config, env)
    /\ UNCHANGED env
    /\ UNCHANGED nonEnvVars

\* the process changes process.env between two calls (dotenv, tests, a late export)
SetProcessEnv ==
    /\ \E e \in ProcessEnvs \ {env} : env' = e
    /\ UNCHANGED config
    /\ UNCHANGED nonEnvVars

-----------------------------------------------------------------------------
(* extractPayerFromTransaction and extractPayerWithRetry (part_005:22-155)   *)

NullPayer == "null"

AccountKey(pubkey, signer) == [ pubkey |-> pubkey, signer |-> signer ]

\* an instruction of the parsed message; "" stands for a field that is absent
ParsedInstruction(parsed, type, source, authority) ==
    [ parsed |-> parsed, type |-> type, source |-> source, authority |-> authority ]

ParsedTransaction(accountKeys, instructions) ==
    [ accountKeys |-> accountKeys, instructions |-> instructions ]

\* part_005:65-86: the payer an instruction names, or null
InstructionPayer(instruction) ==
    IF ~instruction.parsed THEN NullPayer
    ELSE IF instruction.type = "transfer" /\ instruction.source # "" THEN instruction.source
    ELSE IF instruction.type = "transferChecked" /\ instruction.authority # ""
    THEN instruction.authority
    ELSE IF instruction.type = "transfer" /\ instruction.authority # ""
    THEN instruction.authority
    ELSE NullPayer

\* what getParsedTransaction answers: the request fails, null, or the transaction
RpcFailure == [ kind |-> "error", tx |-> ParsedTransaction(<<>>, <<>>) ]

NotFoundResponse == [ kind |-> "null", tx |-> ParsedTransaction(<<>>, <<>>) ]

Fetched(tx) == [ kind |-> "tx", tx |-> tx ]

Returned(payer) == [ threw |-> FALSE, payer |-> payer ]

\* part_005:22-117: the first signer, else the first instruction naming a payer, else
\* null; the catch block turns every error into null
extractPayerFromTransaction(response) ==
    IF response.kind = "error" THEN Returned(NullPayer)
    ELSE IF response.kind = "null" THEN Returned(NullPayer)
    ELSE LET keys == response.tx.accountKeys
             instructions == response.tx.instructions
             signers == { i \in 1..Len(keys) : keys[i].signer }
             naming == { i \in 1..Len(instructions) :
                           InstructionPayer(instructions[i]) # NullPayer }
         IN  IF signers # {} THEN Returned(keys[FirstIndex(signers)].pubkey)
             ELSE IF naming # {} THEN Returned(InstructionPayer(instructions[FirstIndex(naming)]))
             ELSE Returned(NullPayer)

\* the transactions the node may hold for the signature
ParsedKeys ==
    { <<>>, <<AccountKey(Payer, TRUE), AccountKey(Merchant, FALSE)>>,
      <<AccountKey(Other, FALSE), AccountKey(Payer, TRUE)>>,
      <<AccountKey(Payer, FALSE), AccountKey(Merchant, FALSE)>> }

ParsedInstructionLists ==
    { <<>>, <<ParsedInstruction(FALSE, "", "", "")>>,
      <<ParsedInstruction(TRUE, "transfer", Payer, "")>>,
      <<ParsedInstruction(TRUE, "transferChecked", "", Payer)>>,
      <<ParsedInstruction(TRUE, "transfer", "", Other)>>,
      <<ParsedInstruction(TRUE, "createAccount", Other, "")>>,
      <<ParsedInstruction(FALSE, "", "", ""), ParsedInstruction(TRUE, "transferChecked", "", Other),
        ParsedInstruction(TRUE, "transfer", Payer, "")>> }

ParsedTransactions ==
    { ParsedTransaction(k, i) : k \in ParsedKeys, i \in ParsedInstructionLists }

ExtractMaxRetries == {0, 1, 2, 3}        \* 3 is the default (part_005:125)

NoExtract ==
    [ pc |-> "idle", node |-> ParsedTransaction(<<>>, <<>>), maxRetries |-> 0, attempt |-> 0,
      responses |-> <<>>, waits |-> <<>>, result |-> NullPayer ]

nonExtractVars ==
    <<env, ledger, now, pc, call, sig, seen, done, vin, vout, pay, proc, transaction, sent,
      blockhash, build, tmpl, retry, quote, mcp, split, config>>

\* part_005:122-129: the loop begins, or ends at once for maxRetries = 0
CallExtractPayerWithRetry ==
    /\ extract.pc = "idle"
    /\ \E maxRetries \in ExtractMaxRetries :
          extract' = [ extract EXCEPT !.maxRetries = maxRetries,
                                      !.pc = IF 0 < maxRetries THEN "attempt" ELSE "done" ]
    /\ UNCHANGED nonExtractVars

\* part_005:129-150: one turn of the loop: the extraction, then the return of its value
\* or, after an error, the wait and the next turn
ExtractAttempt ==
    /\ extract.pc = "attempt"
    /\ \E response \in {RpcFailure, NotFoundResponse, Fetched(extract.node)} :
          LET r == extractPayerFromTransaction(response)
              e == [ extract EXCEPT !.responses = Append(@, response) ]
          IN  extract' =
                IF ~r.threw
                THEN [ e EXCEPT !.pc = "done", !.result = r.payer ]
                ELSE [ e EXCEPT !.attempt = @ + 1,
                                !.waits = IF extract.attempt < extract.maxRetries - 1
                                          THEN Append(@, Pow(2, extract.attempt) * 1000)
                                          ELSE @,
                                !.pc = IF extract.attempt + 1 < extract.maxRetries
                                       THEN "attempt" ELSE "done",
                                !.result = NullPayer ]
    /\ UNCHANGED nonExtractVars

-----------------------------------------------------------------------------
(* State of the operations that are not running *)

ExtIdle ==
    /\ pay = NoPay
    /\ proc = [ p \in Procs |-> NoProc ]
    /\ transaction = [ t \in TxIds |-> BuiltTransaction ]
    /\ sent = <<>>
    /\ blockhash = FirstBlockhash
    /\ build = NoBuild
    /\ tmpl = NoTmpl
    /\ retry = NoRetry
    /\ quote = NoQuote
    /\ mcp = NoMcp
    /\ extract = NoExtract
    /\ split = NoSplit
    /\ config = NoConfig

Init ==
    /\ env \in Environments
    /\ ledger = <<>>
    /\ now = 0
    /\ pc = "idle"
    /\ call = NoCall
    /\ sig = ""
    /\ seen = NoSeen
    /\ done = <<>>
    /\ vin = NoInput
    /\ vout = Pending
    /\ ExtIdle

Next ==
    \/ CallVerifyPayment
    \/ CallWaitForPayment
    \/ WfIterate
    \/ VpConfirmTimeout
    \/ VpPollStatus
    \/ VpFetchNull
    \/ VpFetchValidate
    \/ LedgerSubmit
    \/ LedgerAdvance

Spec == Init /\ [][Next]_vars

-----------------------------------------------------------------------------
(* Stand-alone calls of validateTransferManually *)

ValidateCall ==
    /\ vout = Pending
    /\ vout' = validateTransferManually(vin.tx, vin.recipient, vin.amount, vin.token,
                                        vin.reference)
    /\ UNCHANGED <<env, ledger, now, pc, call, sig, seen, done, vin>>
    /\ UNCHANGED extVars

InitValidate ==
    /\ env \in { e \in Environments : e.NODE_ENV = "development" /\ e.MOCK_PAYMENTS = Unset }
    /\ ledger = <<>>
    /\ now = 0
    /\ pc = "idle"
    /\ call = NoCall
    /\ sig = ""
    /\ seen = NoSeen
    /\ done = <<>>
    /\ vin \in ValidateInputs
    /\ vout = Pending
    /\ ExtIdle

NextValidate == ValidateCall

SpecValidate == InitValidate /\ [][NextValidate]_vars

-----------------------------------------------------------------------------
(* The waits against a ledger that does not change while they run *)

\* a payment that lists the reference of the calls, and one that lists another
WaitShapes ==
    { TokenTransferTx("T1", <<"R1">>, getAssociatedTokenAddress(USDC, Merchant), Merchant,
                      USDC, 10, 50000),
      TokenTransferTx("T1", <<"R2">>, getAssociatedTokenAddress(USDC, Merchant), Merchant,
                      USDC, 10, 50000) }

WaitLedgers ==
    { <<>> } \cup { << [ tx EXCEPT !.status = s ] >> :
                      tx \in WaitShapes, s \in {"processed", "confirmed", "finalized"} }

InitWait ==
    /\ env \in Environments
    /\ ledger \in WaitLedgers
    /\ now = 0
    /\ pc = "idle"
    /\ call = NoCall
    /\ sig = ""
    /\ seen = NoSeen
    /\ done = <<>>
    /\ vin = NoInput
    /\ vout = Pending
    /\ ExtIdle

NextWait ==
    \/ CallVerifyPayment
    \/ CallWaitForPayment
    \/ CallVerifyPaymentWithSolanaPay
    \/ WfIterate
    \/ VpConfirmTimeout
    \/ VpPollStatus
    \/ VpFetchNull
    \/ VpFetchValidate
    \/ PayIterate

\* the event loop runs every timer and every continuation that is due
SpecWait == InitWait /\ [][NextWait]_vars /\ WF_vars(NextWait)

-----------------------------------------------------------------------------
(* Stand-alone calls of findReferenceWithoutValidation against ledgers with  *)
(* more signatures for one reference than one page of the lookup holds       *)

MaxSignatures == 11     \* signatures that list the reference

\* the n-th transaction that lists the reference R1
LocateTx(n, status) ==
    [ SolTransferTx("S" \o ToString(n), <<"R1">>, Merchant, 1000, 50000) EXCEPT !.status = status ]

\* a wallet (any wallet: the reference is public) broadcasts a transaction
LocateSubmit ==
    /\ done = <<>>
    /\ Len(ledger) < MaxSignatures
    /\ \E s \in {"processed", "confirmed"} :
          ledger' = Append(ledger, LocateTx(Len(ledger) + 1, s))
    /\ UNCHANGED <<env, now, pc, call, sig, seen, done, vin, vout>>
    /\ UNCHANGED extVars

\* the cluster finalizes the oldest transaction that is not finalized yet
LocateFinalize ==
    /\ done = <<>>
    /\ \E i \in 1..Len(ledger) :
          /\ ledger[i].status = "confirmed"
          /\ \A j \in 1..(i - 1) : ledger[j].status = "finalized"
          /\ ledger' = [ ledger EXCEPT ![i].status = "finalized" ]
    /\ UNCHANGED <<env, now, pc, call, sig, seen, done, vin, vout>>
    /\ UNCHANGED extVars

LocateCall ==
    /\ done = <<>>
    /\ done' = << [ fn |-> "findReferenceWithoutValidation", reference |-> "R1",
                    outcome |-> findReferenceWithoutValidation(ledger, "R1") ] >>
    /\ UNCHANGED <<env, ledger, now, pc, call, sig, seen, vin, vout>>
    /\ UNCHANGED extVars

InitLocate ==
    /\ env \in { e \in Environments : e.NODE_ENV = "development" /\ e.MOCK_PAYMENTS = Unset }
    /\ ledger = <<>>
    /\ now = 0
    /\ pc = "idle"
    /\ call = NoCall
    /\ sig = ""
    /\ seen = NoSeen
    /\ done = <<>>
    /\ vin = NoInput
    /\ vout = Pending
    /\ ExtIdle

NextLocate ==
    \/ LocateSubmit
    \/ LocateFinalize
    \/ LocateCall

SpecLocate == InitLocate /\ [][NextLocate]_vars

-----------------------------------------------------------------------------
(* Two concurrent broadcasts with one keypair *)

InitBroadcast ==
    /\ env \in { e \in Environments : e.NODE_ENV = "development" /\ e.MOCK_PAYMENTS = Unset }
    /\ ledger = <<>>
    /\ now = 0
    /\ pc = "idle"
    /\ call = NoCall
    /\ sig = ""
    /\ seen = NoSeen
    /\ done = <<>>
    /\ vin = NoInput
    /\ vout = Pending
    /\ ExtIdle

NextBroadcast ==
    \/ \E p \in Procs : CallSignAndBroadcastReward(p)
    \/ \E p \in Procs : RewardBindSignSend(p)
    \/ \E p \in Procs : CallExecuteRefund(p)
    \/ \E p \in Procs : SendResolved(p)
    \/ \E p \in Procs : SendRejected(p)
    \/ \E p \in Procs : RefundBlockhash(p)
    \/ \E p \in Procs : ConfirmResolved(p)
    \/ BlockhashAdvance

SpecBroadcast == InitBroadcast /\ [][NextBroadcast]_vars

\* one reward claim: a signAndBroadcastReward call, and the call the caller makes again
\* after an error
NoCallYet == \A p \in Procs : proc[p] = NoProc

NextReward ==
    \/ \E p \in Procs : NoCallYet /\ CallSignAndBroadcastReward(p)
    \/ \E p, q \in Procs : RetrySignAndBroadcastReward(p, q)
    \/ \E p \in Procs : RewardBindSignSend(p)
    \/ \E p \in Procs : SendResolved(p)
    \/ \E p \in Procs : SendRejected(p)
    \/ \E p \in Procs : RewardConfirmFails(p)
    \/ \E p \in Procs : RewardConfirmed(p)
    \/ ClusterConfirms
    \/ BlockhashAdvance

SpecReward == InitBroadcast /\ [][NextReward]_vars

-----------------------------------------------------------------------------
(* One buildUsdcPaymentTransaction call against every state of the accounts *)

InitBuild ==
    /\ env \in { e \in Environments : e.NODE_ENV = "development" /\ e.MOCK_PAYMENTS = Unset }
    /\ ledger = <<>>
    /\ now = 0
    /\ pc = "idle"
    /\ call = NoCall
    /\ sig = ""
    /\ seen = NoSeen
    /\ done = <<>>
    /\ vin = NoInput
    /\ vout = Pending
    /\ pay = NoPay
    /\ proc = [ p \in Procs |-> NoProc ]
    /\ transaction = [ t \in TxIds |-> BuiltTransaction ]
    /\ sent = <<>>
    /\ blockhash = FirstBlockhash
    /\ build \in { [ NoBuild EXCEPT !.chain = c ] : c \in BuildChains }
    /\ tmpl = NoTmpl
    /\ retry = NoRetry
    /\ quote = NoQuote
    /\ mcp = NoMcp
    /\ extract = NoExtract
    /\ split = NoSplit
    /\ config = NoConfig

NextBuild ==
    \/ BuildCall
    \/ BuildPayerAccount
    \/ BuildMerchantInfo
    \/ BuildAssemble

SpecBuild == InitBuild /\ [][NextBuild]_vars

-----------------------------------------------------------------------------
(* The library functions on their own: nothing else is running *)

CoreIdle ==
    /\ env \in { e \in Environments : e.NODE_ENV = "development" /\ e.MOCK_PAYMENTS = Unset }
    /\ ledger = <<>>
    /\ now = 0
    /\ pc = "idle"
    /\ call = NoCall
    /\ sig = ""
    /\ seen = NoSeen
    /\ done = <<>>
    /\ vin = NoInput
    /\ vout = Pending
    /\ pay = NoPay
    /\ proc = [ p \in Procs |-> NoProc ]
    /\ transaction = [ t \in TxIds |-> BuiltTransaction ]
    /\ sent = <<>>
    /\ blockhash = FirstBlockhash
    /\ build = NoBuild

\* buildRewardTransaction / buildRefundTransaction, the user with or without a token account
InitTemplate ==
    /\ CoreIdle
    /\ tmpl \in { [ NoTmpl EXCEPT !.userAccount = b ] : b \in BOOLEAN }
    /\ retry = NoRetry
    /\ quote = NoQuote
    /\ mcp = NoMcp
    /\ extract = NoExtract
    /\ split = NoSplit
    /\ config = NoConfig

NextTemplate ==
    \/ CallBuildRewardTransaction
    \/ CallBuildRefundTransaction
    \/ TmplUserAccount
    \/ TmplAssemble

SpecTemplate == InitTemplate /\ [][NextTemplate]_vars

\* withExponentialBackoff / retrySolanaRpc
InitRetry ==
    /\ CoreIdle
    /\ tmpl = NoTmpl
    /\ retry = NoRetry
    /\ quote = NoQuote
    /\ mcp = NoMcp
    /\ extract = NoExtract
    /\ split = NoSplit
    /\ config = NoConfig

NextRetry ==
    \/ CallWithExponentialBackoff
    \/ CallRetrySolanaRpc
    \/ RetryFnResolves
    \/ RetryFnRejects
    \/ RetryWake

SpecRetry == InitRetry /\ [][NextRetry]_vars

\* getB402HolderTier / applyB402Discount, for each wallet
HolderAccounts ==
    { [ exists |-> FALSE, rawBalance |-> RawBalance(0, 0) ] }
      \cup { [ exists |-> TRUE, rawBalance |-> b ] : b \in HolderBalances }

InitQuote ==
    /\ CoreIdle
    /\ tmpl = NoTmpl
    /\ retry = NoRetry
    /\ quote \in { [ NoQuote EXCEPT !.account = a ] : a \in HolderAccounts }
    /\ mcp = NoMcp
    /\ extract = NoExtract
    /\ split = NoSplit
    /\ config = NoConfig

NextQuote ==
    \/ CallGetB402HolderTier
    \/ CallApplyB402Discount
    \/ HolderTierResolve
    \/ ApplyDiscount

SpecQuote == InitQuote /\ [][NextQuote]_vars

\* one call_tool request, for each state of the backend
InitMcp ==
    /\ CoreIdle
    /\ tmpl = NoTmpl
    /\ retry = NoRetry
    /\ quote = NoQuote
    /\ mcp \in { [ NoMcp EXCEPT !.backendTier = t, !.blinks = n ] :
                   t \in BackendTiers, n \in BackendBlinks }
    /\ extract = NoExtract
    /\ split = NoSplit
    /\ config = NoConfig

NextMcp ==
    \/ CallTool
    \/ ToolFetch

SpecMcp == InitMcp /\ [][NextMcp]_vars

\* extractPayerWithRetry, for each transaction the node may hold
InitExtract ==
    /\ CoreIdle
    /\ tmpl = NoTmpl
    /\ retry = NoRetry
    /\ quote = NoQuote
    /\ mcp = NoMcp
    /\ extract \in { [ NoExtract EXCEPT !.node = tx ] : tx \in ParsedTransactions }
    /\ split = NoSplit
    /\ config = NoConfig

NextExtract ==
    \/ CallExtractPayerWithRetry
    \/ ExtractAttempt

SpecExtract == InitExtract /\ [][NextExtract]_vars

\* the two transfer builders, for wallets that hold a USDC token account or do not
InitSplit ==
    /\ CoreIdle
    /\ tmpl = NoTmpl
    /\ retry = NoRetry
    /\ quote = NoQuote
    /\ mcp = NoMcp
    /\ extract = NoExtract
    /\ split \in { [ NoSplit EXCEPT !.recipientAccount = r, !.platformAccount = w ] :
                      r \in BOOLEAN, w \in BOOLEAN }
    /\ config = NoConfig

NextSplit ==
    \/ CallBuildSolTransferTransaction
    \/ CallBuildUsdcTransferTransaction
    \/ SplitRecipientAccount
    \/ SplitPlatformAccount
    \/ SplitAssemble

SpecSplit == InitSplit /\ [][NextSplit]_vars

\* getEnv under a process environment that changes
InitEnv ==
    /\ env \in ProcessEnvs
    /\ ledger = <<>>
    /\ now = 0
    /\ pc = "idle"
    /\ call = NoCall
    /\ sig = ""
    /\ seen = NoSeen
    /\ done = <<>>
    /\ vin = NoInput
    /\ vout = Pending
    /\ ExtIdle

NextEnv ==
    \/ CallGetEnv
    \/ SetProcessEnv

SpecEnv == InitEnv /\ [][NextEnv]_vars

-----------------------------------------------------------------------------
(* Properties *)

BypassConfigured == env.MOCK_PAYMENTS = "true" /\ env.NODE_ENV # "production"

ExecutionErrors == {"InstructionError"}

OnChainFailureMessages ==
    { MsgStatusErr(e) : e \in ExecutionErrors } \cup { MsgMetaErr(e) : e \in ExecutionErrors }

\* C1: unless the bypass is active, a result is returned only for a located
\* signature whose status was reported confirmed or finalized without error,
\* whose fetched transaction has no error and passes validateTransferManually
\* for the expectation of the call.
C1_ResultOnlyAfterChecks ==
    \A i \in 1..Len(done) :
        LET d == done[i]
        IN  (d.outcome.ok /\ ~BypassConfigured) =>
                /\ d.located
                /\ d.sig # ""
                /\ d.outcome.signature = d.sig
                /\ d.outcome.amount = d.params.amount
                /\ d.seen.status \in {"confirmed", "finalized"}
                /\ d.seen.err = "null"
                /\ d.seen.fetched
                /\ TxOf(ledger, d.sig).err = "null"
                /\ validateTransferManually(TxOf(ledger, d.sig), d.params.recipient,
                                            d.params.amount, d.params.splToken,
                                            d.params.reference) = OK

C1_Witness ==
    \E i \in 1..Len(done) :
        /\ done[i].outcome.ok
        /\ ~BypassConfigured
        /\ done[i].seen.fetched
        /\ done[i].outcome.signature \in {"T1", "T2"}

\* C2: a located signature with an execution error never yields a result; the
\* call ends with the on-chain failure error, and waitForPayment never goes
\* back to polling after that error.
C2_ExecutionErrorIsTerminal ==
    /\ \A i \in 1..Len(done) :
          LET d == done[i]
          IN  (d.sig # "" /\ TxOf(ledger, d.sig).err # "null"
                 /\ (d.seen.status # "none" \/ d.seen.fetched)) =>
                  /\ ~d.outcome.ok
                  /\ d.outcome.message \in OnChainFailureMessages
    /\ pc = "wfLoop" =>
          /\ call.caught \notin OnChainFailureMessages
          /\ call.caughtSig # "" => TxOf(ledger, call.caughtSig).err = "null"

C2_Witness ==
    \E i \in 1..Len(done) :
        /\ done[i].fn = "waitForPayment"
        /\ done[i].sig # ""
        /\ TxOf(ledger, done[i].sig).err # "null"
        /\ done[i].outcome.message \in OnChainFailureMessages

ReferenceListed(tx, reference) ==
    \E i \in 1..Len(tx.accountKeys) : tx.accountKeys[i] = reference

\* the balance delta of the recipient's holding of the asset in tx (0 if none)
RecipientDelta(tx, recipient, token) ==
    IF token = NoToken
    THEN LET at == { i \in 1..Len(tx.accountKeys) : tx.accountKeys[i] = recipient }
         IN  IF at = {} THEN 0
             ELSE tx.postBalances[FirstIndex(at)] - tx.preBalances[FirstIndex(at)]
    ELSE LET at == { i \in 1..Len(tx.postTokenBalances) :
                       /\ tx.postTokenBalances[i].owner = recipient
                       /\ tx.postTokenBalances[i].mint = token }
         IN  IF at = {} THEN 0
             ELSE tx.postTokenBalances[FirstIndex(at)].amount
                    - tx.preTokenBalances[FirstIndex(at)].amount

\* C3: a transaction whose account keys lack the reference never validates,
\* whatever the recipient, amount, asset and balances: the reference error is
\* raised before any balance is read.
C3_NoReferenceNeverValidates ==
    (vout # Pending /\ ~ReferenceListed(vin.tx, vin.reference)) =>
        /\ vout # OK
        /\ vin.tx.hasMeta => vout = MsgReferenceMissing

C3_Witness ==
    /\ vout = MsgReferenceMissing
    /\ ~ReferenceListed(vin.tx, vin.reference)
    /\ RecipientDelta(vin.tx, vin.recipient, vin.token) = vin.amount
    /\ vin.token = USDC


\* C4: in a production deployment the bypass never takes effect: verifyPayment
\* never returns the mock result, and both isMockPaymentsEnabled functions and
\* the MOCK_PAYMENTS field of the validated environment report it disabled.
C4_BypassDisabledInProduction ==
    env.NODE_ENV = "production" =>
        /\ ~isMockPaymentsEnabled(env)
        /\ ~isMockPaymentsEnabledSolana(env)
        /\ ~validateEnv(env).threw => ~validateEnv(env).MOCK_PAYMENTS
        /\ \A i \in 1..Len(done) :
              /\ ~done[i].seen.mock
              /\ done[i].outcome.signature # MockSignature(done[i].params.reference)

\* C5: a validation mismatch of a located, successful transaction is terminal:
\* waitForPayment never catches it as "not found yet" and polls again.
C5_ValidationMismatchIsTerminal ==
    (pc = "wfLoop" /\ call.caughtSig # "") =>
        LET tx == TxOf(ledger, call.caughtSig)
            v  == validateTransferManually(tx, call.params.recipient, call.params.amount,
                                           call.params.splToken, call.params.reference)
        IN  ~(tx.err = "null" /\ v # OK /\ call.caught = v)

ToleranceOf(token) == IF token = NoToken THEN 1000000 ELSE 1

\* C6 as stated: every transaction whose recipient delta is below the expected
\* amount fails validation, for native SOL and for tokens.
C6_AnyShortfallRejected ==
    (vout # Pending /\ RecipientDelta(vin.tx, vin.recipient, vin.token) < vin.amount) =>
        vout # OK

\* C6 as amended: a recipient delta that is not positive, or that is below the
\* expected amount by more than the tolerance (1 unit for a token, 1,000,000
\* lamports for native SOL), fails validation.
C6_ShortfallBeyondToleranceRejected ==
    LET delta == RecipientDelta(vin.tx, vin.recipient, vin.token)
    IN  (vout # Pending /\ (delta <= 0 \/ delta < vin.amount - ToleranceOf(vin.token))) =>
            vout # OK

C6_Witness ==
    LET delta == RecipientDelta(vin.tx, vin.recipient, vin.token)
    IN  /\ vin.token = NoToken
        /\ ReferenceListed(vin.tx, vin.reference)
        /\ delta > 0
        /\ delta < vin.amount - ToleranceOf(vin.token)
        /\ vout = MsgWrongSolAmount(vin.amount, delta, vin.amount - delta)

SameExpectation(p, q) ==
    /\ p.recipient = q.recipient
    /\ p.amount = q.amount
    /\ p.splToken = q.splToken

\* C7: after a verification for reference R returned a result, no later
\* verification that uses R for a new expectation returns a result.
C7_ReferenceMatchedAtMostOnce ==
    \A i, j \in 1..Len(done) :
        (/\ i < j
         /\ ~BypassConfigured
         /\ done[i].outcome.ok
         /\ done[j].params.reference = done[i].params.reference
         /\ ~SameExpectation(done[j].params, done[i].params)) =>
            ~done[j].outcome.ok

\* C8: verifyPayment called again with the same reference and expectation
\* after a result returns the identical result, whatever was added to the
\* ledger in between (here: whenever the RPC endpoint answered the second call).
C8_VerifyIsIdempotent ==
    \A i, j \in 1..Len(done) :
        (/\ i < j
         /\ ~BypassConfigured
         /\ done[i].fn = "verifyPayment"
         /\ done[j].fn = "verifyPayment"
         /\ done[i].outcome.ok
         /\ done[j].params = done[i].params
         /\ done[j].seen.fetched) =>
            done[j].outcome = done[i].outcome

\* C9: if the ledger holds a confirmed, successful transaction T that lists R
\* and raises the recipient's token account for the expected mint by exactly
\* the expected amount, verifyPayment returns a result with signature T and
\* that amount (here: T is the only signature of R and the RPC endpoint
\* answered every request of the call).
C9_ValidPaymentVerifies ==
    \A i \in 1..Len(done) :
        LET d == done[i]
        IN  (/\ d.fn = "verifyPayment"
             /\ ~BypassConfigured
             /\ d.params.splToken # NoToken
             /\ d.validAtStart # {}
             /\ Len(getSignaturesForAddress(ledger, d.params.reference, 10)) = 1
             /\ d.seen.fetched) =>
                /\ d.outcome.ok
                /\ d.outcome.signature \in d.validAtStart
                /\ d.outcome.amount = d.params.amount

\* C10: a wait ends as timed out only when no signature of the reference was
\* located during it.
C10_TimeoutOnlyFromSearching ==
    \A i \in 1..Len(done) :
        (done[i].fn = "waitForPayment" /\ done[i].outcome.message = MsgWaitTimeout) =>
            ~done[i].located

NoTransactionFor(reference) == getSignaturesForAddress(ledger, reference, SignatureLimit) = <<>>

TimeoutErrors(fn, timeout) ==
    IF fn = "waitForPayment"
    THEN { Failure(MsgWaitTimeout) }
    ELSE { Failure(MsgPayTimeout(timeout)), Failure(MsgPayAttempts(maxAttempts(timeout))) }

C12_WaitBoundedByCallerTimeout ==
    (call.fn = "waitForPayment" /\ pc = "vpStatus") =>
        /\ call.vpStart + call.vpTimeout <= call.wfStart + call.params.timeout
        /\ now - call.wfStart >= call.params.timeout => ~(now - call.vpStart < call.vpTimeout)

\* positions in ldg (oldest first) of the confirmed or finalized transactions
\* that list the reference, among the `page` most recent that list it
ConfirmedAmong(ldg, reference, page) ==
    LET listing == { i \in 1..Len(ldg) : HasKey(ldg[i], reference) }
        recent  == { i \in listing : Cardinality({ j \in listing : j > i }) < page }
    IN  { i \in recent : ldg[i].status \in {"confirmed", "finalized"} }

Newest(S) == CHOOSE i \in S : \A j \in S : j <= i

\* C13 as stated: if any signature for the reference is confirmed or finalized
\* the locator returns the most recent such signature, and it never returns a
\* signature whose status is processed or missing.
C13_LocatorReturnsMostRecentConfirmed ==
    done # <<>> =>
        LET conf == ConfirmedAmong(ledger, "R1", Len(ledger))
        IN  /\ conf # {} => (done[1].outcome.ok /\ done[1].outcome.signature = ledger[Newest(conf)].signature)
            /\ done[1].outcome.ok => \E i \in conf : ledger[i].signature = done[1].outcome.signature

\* C13 as amended: the locator looks at the ten most recent signatures for the
\* reference only; it returns the most recent confirmed or finalized one among
\* those, fails if there is none among them, and never returns a signature
\* whose status is processed or missing.
C13_LocatorReturnsMostRecentConfirmedOfPage ==
    done # <<>> =>
        LET conf == ConfirmedAmong(ledger, "R1", 10)
        IN  /\ conf # {} => (done[1].outcome.ok /\ done[1].outcome.signature = ledger[Newest(conf)].signature)
            /\ conf = {} => ~done[1].outcome.ok
            /\ done[1].outcome.ok => \E i \in conf : ledger[i].signature = done[1].outcome.signature

C13_Witness ==
    /\ done # <<>>
    /\ done[1].outcome.ok
    /\ Len(ledger) >= 4
    /\ ledger[Len(ledger)].status = "processed"
    /\ Cardinality(ConfirmedAmong(ledger, "R1", 10)) >= 2
    /\ done[1].outcome.signature = ledger[Len(ledger) - 1].signature
    /\ ledger[Len(ledger) - 1].status = "confirmed"

\* C14: a waitForPayment call never ends because the signatures it saw for
\* the reference were all unconfirmed: that lookup failure is answered by
\* another poll, not surfaced to the caller.
C14_UnconfirmedKeepsPolling ==
    \A i \in 1..Len(done) :
        done[i].fn = "waitForPayment" => done[i].outcome # Failure(MsgNoConfirmedSignature)

\* C15: for a token expectation, a transaction that lists the reference and
\* raises a token account owned by the expected recipient for the expected
\* mint by the expected amount validates, whichever of the recipient's token
\* accounts it is.
C15_TokenDeltaByOwnerAndMint ==
    (/\ vout # Pending
     /\ vin.token # NoToken
     /\ vin.tx.hasMeta
     /\ ReferenceListed(vin.tx, vin.reference)
     /\ RecipientDelta(vin.tx, vin.recipient, vin.token) = vin.amount) =>
        vout = OK

Carries(message, word) == Includes(message, <<word>>)

\* C16: every error that verifyPayment or waitForPayment surfaces carries the
\* reference, the expected recipient and amount and, if a signature had been
\* located, that signature.
C16_ErrorsCarryContext ==
    \A i \in 1..Len(done) :
        LET d == done[i]
        IN  (d.fn \in {"verifyPayment", "waitForPayment"} /\ ~d.outcome.ok) =>
                /\ Carries(d.outcome.message, d.params.reference)
                /\ Carries(d.outcome.message, d.params.recipient)
                /\ Carries(d.outcome.message, ToString(d.params.amount))
                /\ d.sig # "" => Carries(d.outcome.message, d.sig)

\* a call is between the request of the blockhash it binds (for executeRefund:
\* its signing) and the answer to its sendRawTransaction
Broadcasting(p) == proc[p].pc \in {"blockhash", "send"}

\* C17: two calls with the same keypair are never both between the start of
\* their blockhash binding and the end of their send: the binding, signing
\* and sending of one call are over before those of the other begin.
C17_BroadcastsSerialized ==
    \A p, q \in Procs : (p # q /\ Broadcasting(p)) => ~Broadcasting(q)

\* C18: every template the builder returns (here: for a positive amount) has
\* exactly the three instructions set-compute-limit, set-compute-price, token
\* transfer, in this order, and a fee payer that is not the sending wallet.
C18_TemplateShape ==
    (build.pc = "done" /\ build.ok /\ build.params.amountUsdc.e7 > 0) =>
        LET ins == build.template.instructions
        IN  /\ Len(ins) = 3
            /\ ins[1].type = "setComputeUnitLimit"
            /\ ins[2].type = "setComputeUnitPrice"
            /\ ins[3].type = "transferChecked"
            /\ ins[3].owner = build.params.payer
            /\ build.template.payerKey # build.params.payer

Requested(request) == \E i \in 1..Len(build.rpc) : build.rpc[i] = request

\* C19: if the payer's or the merchant's token account does not exist, the
\* builder never requests a blockhash, never assembles a template, and ends
\* by throwing.
C19_MissingAccountFailsFast ==
    (build.chain.payerBalance = NoAccount \/ ~build.chain.merchantAccount) =>
        /\ ~Requested("getLatestBlockhash")
        /\ build.template = NoTemplate
        /\ build.pc = "done" => ~build.ok

C19_Witness ==
    /\ build.pc = "done"
    /\ build.chain.payerBalance = 2000000
    /\ ~build.chain.merchantAccount
    /\ build.message = MsgMerchantAccountMissing
    /\ build.rpc = <<"getAccount", "getAccountInfo">>

MalformedInput(p) ==
    \/ OwnerOffCurve(p.payer)
    \/ OwnerOffCurve(p.merchant)
    \/ ~p.amountUsdc.finite
    \/ p.amountUsdc.e7 <= 0

\* C20: a call with an off-curve payer or merchant, or with an amount that is
\* not a positive number, issues no RPC request and ends by throwing.
C20_MalformedInputBeforeNetwork ==
    (build.pc # "idle" /\ MalformedInput(build.params)) =>
        /\ build.rpc = <<>>
        /\ build.pc = "done"
        /\ ~build.ok

-----------------------------------------------------------------------------
(* Reward and refund templates *)

SignerKeys(instruction) ==
    { instruction.keys[k].pubkey : k \in { j \in 1..Len(instruction.keys) : instruction.keys[j].isSigner } }

\* the accounts that must sign: the fee payer and every signer key of an instruction
RequiredSigners(t) ==
    {t.feePayer} \cup UNION { SignerKeys(t.instructions[i]) : i \in 1..Len(t.instructions) }

Kind(instruction) == <<instruction.programId, instruction.type>>

Kinds(instructions) == [ i \in 1..Len(instructions) |-> Kind(instructions[i]) ]

\* the instruction moves p.amount from p.payer to p.user, in the asset of p
TransfersFromPayerToUser(instruction, p) ==
    IF p.tokenMint = NoToken
    THEN /\ Kind(instruction) = <<"System", "transfer">>
         /\ instruction.keys[1].pubkey = p.payer
         /\ instruction.keys[2].pubkey = p.user
         /\ instruction.value = p.amount
    ELSE /\ Kind(instruction) = <<"Token", "transferChecked">>
         /\ instruction.keys[1].pubkey = getAssociatedTokenAddress(p.tokenMint, p.payer)
         /\ instruction.keys[2].pubkey = p.tokenMint
         /\ instruction.keys[3].pubkey = getAssociatedTokenAddress(p.tokenMint, p.user)
         /\ instruction.keys[4].pubkey = p.payer
         /\ instruction.value = p.amount

\* a memo text was passed (an empty text is no memo)
MemoPassed(p) == p.memo # NoMemo /\ p.memo # EmptyMemo

\* C21: every Transaction buildRewardTransaction returns has the creator as fee payer
\* and as its only required signer, begins with the compute-unit limit and then the
\* compute-unit price, and continues with at most one account creation, exactly one
\* transfer from creator to user, and a memo exactly when a memo was passed, in this order.
C21_RewardTemplateShape ==
    (tmpl.pc = "done" /\ tmpl.ok /\ tmpl.fn = "buildRewardTransaction") =>
        LET t == tmpl.transaction
            p == tmpl.params
            ix == t.instructions
            n == Len(ix)
            created == IF n >= 3 /\ Kind(ix[3]) = <<"AssociatedToken", "create">> THEN 1 ELSE 0
            transferAt == 3 + created
        IN  /\ t.feePayer = p.payer
            /\ RequiredSigners(t) = {p.payer}
            /\ n >= 3
            /\ Kind(ix[1]) = <<"ComputeBudget", "setComputeUnitLimit">>
            /\ Kind(ix[2]) = <<"ComputeBudget", "setComputeUnitPrice">>
            /\ n >= transferAt
            /\ TransfersFromPayerToUser(ix[transferAt], p)
            /\ IF MemoPassed(p)
               THEN n = transferAt + 1 /\ Kind(ix[n]) = <<"Memo", "memo">> /\ ix[n].data = p.memo
               ELSE n = transferAt

\* a token reward with reference and memo to a user without a token account was built
C21_Witness ==
    /\ tmpl.pc = "done" /\ tmpl.ok /\ tmpl.fn = "buildRewardTransaction"
    /\ tmpl.params.tokenMint = USDC /\ ~tmpl.userAccount
    /\ tmpl.params.reference = "R1" /\ tmpl.params.memo = "thanks"
    /\ Len(tmpl.transaction.instructions) = 5

\* the instruction lists the reference as a read-only account that does not sign
CarriesReference(instruction, reference) ==
    \E k \in 1..Len(instruction.keys) :
        instruction.keys[k] = AccountMeta(reference, FALSE, FALSE)

\* C22: a Transaction buildRefundTransaction returns has the instruction kinds, in the
\* same order, of the reward Transaction for the same asset, recipient account and memo,
\* has the payer as fee payer, and its transfer lists the reference read-only, not signing.
C22_RefundLikeReward ==
    (tmpl.pc = "done" /\ tmpl.ok /\ tmpl.fn = "buildRefundTransaction") =>
        LET t == tmpl.transaction
            p == tmpl.params
        IN  /\ Kinds(t.instructions) = Kinds(RewardInstructions(p, tmpl.accountFound))
            /\ t.feePayer = p.payer
            /\ \E i \in 1..Len(t.instructions) :
                  /\ TransfersFromPayerToUser(t.instructions[i], p)
                  /\ CarriesReference(t.instructions[i], p.reference)

InsufficientFunds(error) == Includes(toLowerCase(error.message), <<"insufficient">>)

RateLimitOr5xx(error) ==
    \E status \in {"429", "500", "502", "503", "504"} :
        Includes(toLowerCase(error.message), <<status>>)

\* the i-th rejection of the run was classified by shouldRetry
Classified(i) == i <= retry.options.maxRetries

\* the i-th rejection of the run was followed by a delay and another attempt
Retried(i) == Len(retry.delays) >= i

\* C23: defaultShouldRetry returns false for every Error whose message contains an
\* insufficient-funds indicator, and true for every Error whose message contains a
\* rate-limit (429) or 5xx indicator: a run is never retried after the former and
\* always retried after the latter (for a message with both, the former is asked).
C23_RetryClassification ==
    \A i \in 1..Len(retry.errors) :
        LET error == retry.errors[i]
        IN  (error.isError /\ Classified(i)) =>
                /\ InsufficientFunds(error) => ~Retried(i)
                /\ (RateLimitOr5xx(error) /\ ~InsufficientFunds(error)) => Retried(i)

\* C24: with the backoff multiplier 2, the delays of one run never decrease from
\* attempt to attempt and never exceed maxDelayMs, whatever the jitter draws.
C24_DelaysMonotoneAndCapped ==
    retry.options.backoffMultiplier = 2 =>
        /\ \A i \in 1..Len(retry.delays) :
              retry.delays[i] <= retry.options.maxDelayMs * JitterUnit
        /\ \A i \in 1..(Len(retry.delays) - 1) : retry.delays[i] <= retry.delays[i + 1]

C24_Witness ==
    /\ retry.options.backoffMultiplier = 2
    /\ Len(retry.delays) >= 2
    /\ retry.delays[1] < retry.delays[2]
    /\ retry.delays[2] = retry.options.maxDelayMs * JitterUnit
    /\ NextDelay_Uncapped(retry.options, 1, JitterUnit) > retry.delays[2]

FailedOnceRetryably ==
    /\ Len(retry.errors) = 1
    /\ retry.errors[1].isError
    /\ RateLimitOr5xx(retry.errors[1])
    /\ ~InsufficientFunds(retry.errors[1])
    /\ retry.options.maxRetries >= 1
    /\ retry.options.initialDelayMs > 0
    /\ retry.options.maxDelayMs > 0

BalanceLeq(a, b) == a.tokens < b.tokens \/ (a.tokens = b.tokens /\ a.nano <= b.nano)

\* the tiers the specification gives at the boundaries, for balances in whole tokens
TierBoundaries ==
    { <<0, "NONE">>, <<999, "NONE">>, <<1000, "BRONZE">>, <<9999, "BRONZE">>,
      <<10000, "SILVER">>, <<50000, "GOLD">>, <<100000, "DIAMOND">> }

HolderTierKnown == quote.pc \in {"quote", "done"}

\* C26: the tier assigned to a balance is monotonic non-decreasing in the balance over
\* NONE < BRONZE < SILVER < GOLD < DIAMOND, the boundaries are tier(0) = tier(999) = NONE,
\* tier(1000) = tier(9999) = BRONZE, tier(10000) = SILVER, tier(50000) = GOLD,
\* tier(100000) = DIAMOND, and the benefits returned are those of the assigned tier.
C26_TierMonotoneWithBoundaries ==
    HolderTierKnown =>
        /\ quote.info.benefits = TIER_BENEFITS[quote.info.tier]
        /\ quote.lookup = "account" =>
              /\ \A b \in TierBoundaries :
                    quote.account.rawBalance = RawBalance(b[1], 0) => quote.info.tier = b[2]
              /\ \A other \in HolderBalances :
                    /\ BalanceLeq(other, quote.account.rawBalance) =>
                          TierRank(TierFor(other)) <= TierRank(quote.info.tier)
                    /\ BalanceLeq(quote.account.rawBalance, other) =>
                          TierRank(quote.info.tier) <= TierRank(TierFor(other))

C26_Witness ==
    /\ quote.fn = "getB402HolderTier"
    /\ quote.pc = "done"
    /\ quote.lookup = "account"
    /\ quote.account.rawBalance = RawBalance(10000, 0)
    /\ quote.info.tier = "SILVER"
    /\ quote.info.benefits.blinks.creatorFeeDiscount = 20

Quoted == quote.fn = "applyB402Discount" /\ quote.pc = "done"

\* |x - y| <= x * 2^-50, in doubles
CloseTo(x, y, scale) ==
    LET diff == DoubleAdd(DoubleSubMax0(x, y), DoubleSubMax0(y, x))
    IN  diff = DoubleZero \/ DoubleLess(diff, DoubleMul(scale, Canon(<<1>>, 0 - 50)))

\* C27: for every basePrice >= 0 in whole atomic units and every tier, the quote has
\* finalPrice = basePrice * (1 - percent / 100) (to the precision of a double),
\* finalPrice >= 0, savings >= 0, and finalPrice + savings = basePrice exactly.
C27_DiscountQuoteExact ==
    Quoted =>
        LET basePrice == DoubleOfDecimal(quote.basePrice)
            result == quote.result
            share == DoubleSubMax0(DoubleOfNat(1), DoubleDiv(result.discountPercent, Percent))
        IN  /\ result.originalPrice = basePrice
            /\ CloseTo(result.discountedPrice, DoubleMul(basePrice, share), basePrice)
            /\ ~DoubleLess(result.discountedPrice, DoubleZero)
            /\ ~DoubleLess(result.savings, DoubleZero)
            /\ DoubleAdd(result.discountedPrice, result.savings) = basePrice

\* C28: the discount table is fixed per tier: a holder of 15000 tokens is quoted tier
\* SILVER with a 20% discount and a holder of 999 tokens tier NONE with 0%, whatever
\* the pricing category applyB402Discount is called with.
C28_FixedTierDiscount ==
    (Quoted /\ quote.lookup = "account") =>
        /\ quote.account.rawBalance = RawBalance(15000, 0) =>
              quote.result.tier = "SILVER" /\ quote.result.discountPercent = 20
        /\ quote.account.rawBalance = RawBalance(999, 0) =>
              quote.result.tier = "NONE" /\ quote.result.discountPercent = 0

Responded == mcp.pc = "done"

\* C29: every call_tool request yields a response: an exception raised while handling
\* the tool (backend API error, request timeout, unknown tool name) is returned as a
\* response with isError: true carrying the error message and the tool name, and is
\* never thrown out of the handler; a successful call never carries isError.
C29_CallToolAlwaysResponds ==
    Responded =>
        /\ ~mcp.escaped
        /\ "content" \in mcp.response.fields
        /\ mcp.raised # <<>> =>
              /\ mcp.response.fields = {"content", "isError"}
              /\ mcp.response.isError
              /\ mcp.response.error = mcp.raised
              /\ mcp.response.tool = mcp.name
        /\ mcp.raised = <<>> => "isError" \notin mcp.response.fields
        /\ mcp.name \notin TOOLS => mcp.raised = MsgUnknownTool(mcp.name)

C29_Witness ==
    /\ Responded
    /\ mcp.name = "execute_blink"
    /\ mcp.requests = <<"blink", "holder-info">>
    /\ mcp.raised = FetchErrorMessage("timeout")
    /\ mcp.response.isError
    /\ mcp.response.tool = "execute_blink"

Recommended(spend) ==
    /\ Responded
    /\ mcp.name = "recommend_b402_purchase"
    /\ mcp.raised = <<>>
    /\ mcp.args.expected_monthly_spend = spend

\* C30: recommend_b402_purchase picks as best_option the tier recommended for the
\* spend: none for an expected monthly spend of 0 or $2, SILVER for $25, GOLD for $100,
\* and SILVER for a wallet currently in BRONZE that spends $50.
C30_BestOptionForSpend ==
    /\ Recommended(0) => mcp.response.best_option = NoBestOption
    /\ Recommended(2) => mcp.response.best_option = NoBestOption
    /\ Recommended(25) => mcp.response.best_option = "SILVER"
    /\ Recommended(100) => mcp.response.best_option = "GOLD"
    /\ (Recommended(50) /\ mcp.response.current_tier = "BRONZE") =>
          mcp.response.best_option = "SILVER"

GaveUp == retry.pc = "done" /\ ~retry.ok

\* C31: withExponentialBackoff invokes the wrapped call at most maxRetries + 1 times; it
\* stops after the first attempt whose error shouldRetry rejects; when it gives up it
\* throws the error of the last attempt made; it returns a value only when an attempt
\* succeeded.
C31_BoundedAttempts ==
    /\ retry.invocations <= retry.options.maxRetries + 1
    /\ Len(retry.errors) <= retry.invocations
    /\ \A i \in 1..(Len(retry.errors) - 1) : defaultShouldRetry(retry.errors[i], i - 1)
    /\ (Len(retry.errors) >= 1 /\ ~defaultShouldRetry(retry.errors[Len(retry.errors)], 0)) =>
          GaveUp
    /\ GaveUp =>
          /\ retry.invocations = Len(retry.errors)
          /\ retry.thrown = retry.errors[Len(retry.errors)]
          /\ \/ retry.invocations = retry.options.maxRetries + 1
             \/ ~defaultShouldRetry(retry.thrown, retry.invocations - 1)
    /\ (retry.pc = "done" /\ retry.ok) => retry.invocations = Len(retry.errors) + 1

C31_Witness ==
    /\ GaveUp
    /\ retry.options.maxRetries = 2
    /\ retry.invocations = 3
    /\ retry.errors = <<BadGateway, TooManyRequests, BadGateway>>
    /\ retry.thrown = BadGateway

\* a call ended in this step after fetching the transaction
FetchedInStep ==
    /\ Len(done') = Len(done) + 1
    /\ done'[Len(done')].seen.fetched

\* C32: verifyPayment never fetches the transaction of a signature before a
\* getSignatureStatus response reported that signature confirmed or finalized with no
\* error; the ledger calls of a run are the signature lookup, then the status polls,
\* then one transaction fetch, then the validation.
C32_FetchAfterConfirmation ==
    [][ /\ pc' = "vpStatus" =>
              /\ call'.located
              /\ sig' # ""
              /\ ~seen'.fetched
              /\ pc = "vpStatus" => sig' = sig
        /\ pc' = "vpFetch" =>
              /\ pc \in {"vpStatus", "vpFetch"}
              /\ call'.located
              /\ sig' = sig
              /\ sig' # ""
              /\ seen'.status \in {"confirmed", "finalized"}
              /\ seen'.err = "null"
              /\ ~seen'.fetched
              /\ pc = "vpFetch" => UNCHANGED <<call, seen, done>>
        /\ pc = "vpFetch" => pc' \in {"vpFetch", "idle", "wfLoop"}
        /\ FetchedInStep =>
              /\ pc = "vpFetch"
              /\ done'[Len(done')].sig = sig
              /\ done'[Len(done')].seen.status = seen.status ]_vars

C32_Witness ==
    /\ pc = "vpFetch"
    /\ call.fn = "verifyPayment"
    /\ call.polls >= 1
    /\ seen.status = "finalized"
    /\ sig = "T1"

RpcFailed(i) == extract.responses[i].kind = "error"

\* 1s, 2s, 4s, ...: the waits after the first n failed attempts
BackoffWaits(n) == [ i \in 1..n |-> Pow(2, i - 1) * 1000 ]

\* C33: extractPayerWithRetry retries after an RPC failure: when fetching the
\* transaction fails it attempts the extraction again, up to maxRetries attempts with
\* waits of 1s, 2s, 4s, ...; it returns null without retrying only when the transaction
\* request was answered and no payer could be identified.
C33_RetriesAfterRpcFailure ==
    extract.pc = "done" =>
        LET n == Len(extract.responses)
        IN  /\ n <= extract.maxRetries
            /\ \A i \in 1..(n - 1) : RpcFailed(i)
            /\ (n >= 1 /\ RpcFailed(n)) =>
                  /\ n = extract.maxRetries
                  /\ extract.waits = BackoffWaits(n - 1)
                  /\ extract.result = NullPayer
            /\ (n >= 1 /\ ~RpcFailed(n)) =>
                  /\ extract.waits = BackoffWaits(n - 1)
                  /\ extract.result = extractPayerFromTransaction(extract.responses[n]).payer

LookupFailed == quote.lookup \in {"notFound", "invalid", "rpcError"}

\* C34: the tier lookup is fail-safe: whenever the token-account lookup fails (missing
\* account, invalid address, RPC error) getB402HolderTier returns tier NONE with balance
\* 0 and the NONE benefits, never a tier above NONE and never an error to the caller,
\* and applyB402Discount then applies a 0% discount.
C34_TierLookupFailSafe ==
    /\ quote.pc \in {"idle", "getAccount", "quote", "done"}
    /\ (HolderTierKnown /\ LookupFailed) =>
          /\ quote.info.tier = "NONE"
          /\ quote.info.rawBalance = RawBalance(0, 0)
          /\ quote.info.benefits = TIER_BENEFITS.NONE
    /\ (Quoted /\ LookupFailed) =>
          /\ quote.result.tier = "NONE"
          /\ quote.result.discountPercent = 0
          /\ quote.result.savings = DoubleZero
          /\ quote.result.discountedPrice = DoubleOfDecimal(quote.basePrice)

C34_Witness ==
    /\ Quoted
    /\ quote.lookup = "rpcError"
    /\ quote.account.exists
    /\ quote.account.rawBalance = RawBalance(15000, 0)
    /\ quote.basePrice = <<5, 0, 0, 0, 0>>
    /\ quote.result.discountPercent = 0

CreatesAccount(instructions) ==
    \E i \in 1..Len(instructions) : Kind(instructions[i]) = <<"AssociatedToken", "create">>

\* C35: a reward or refund template carries an account-creation instruction exactly
\* when the user's associated token account does not exist; when the account exists no
\* creation instruction is added, also when the lookup of the account failed with a
\* transient RPC error.
C35_CreatesOnlyMissingAccount ==
    (tmpl.pc = "done" /\ tmpl.ok /\ tmpl.params.tokenMint # NoToken) =>
        (CreatesAccount(tmpl.transaction.instructions) <=> ~tmpl.userAccount)

Threw(p) == proc[p].fn = "signAndBroadcastReward" /\ proc[p].pc = "failed"

\* the reward transfers the cluster confirmed
ConfirmedRewards ==
    { <<sent[i].tx, sent[i].recentBlockhash>> : i \in { k \in 1..Len(sent) : sent[k].landed } }

\* C36: retrying a reward broadcast after an error cannot pay twice: whenever
\* signAndBroadcastReward throws (its expiry and confirmation-timeout errors included)
\* the transaction it sent can no longer be confirmed, so a caller that calls it again
\* for the same claim ends with at most one confirmed reward transfer.
C36_RetryCannotPayTwice ==
    /\ \A p \in Procs :
          (Threw(p) /\ proc[p].error # "send") =>
              /\ ~sent[SentBy(p)].landed
              /\ Expired(sent[SentBy(p)])
    /\ Cardinality(ConfirmedRewards) <= 1

\* q = floor(n / d)
IsFloorOf(q, n, d) ==
    /\ ~NatLess(n, NatMul(q, NatOfSmall(d)))
    /\ NatLess(n, NatMul(NatAdd(q, <<1>>), NatOfSmall(d)))

\* the transfers of the built transaction that pay the platform wallet
PlatformTransfers ==
    { i \in 1..Len(split.instructions) :
        LET instruction == split.instructions[i]
        IN  \/ /\ Kind(instruction) = <<"System", "transfer">>
               /\ instruction.keys[2].pubkey = PlatformWallet
            \/ /\ Kind(instruction) = <<"Token", "transferChecked">>
               /\ instruction.keys[3].pubkey = getAssociatedTokenAddress(USDC, PlatformWallet) }

SplitBuilt == split.pc = "done" /\ split.ok

SplitConserves ==
    LET amount == NatOfDecimal(split.params.amount)
    IN  /\ ~NatLess(amount, split.amounts.platformAmount)
        /\ NatAdd(split.amounts.creatorAmount, split.amounts.platformAmount) = amount

PlatformTransferExactlyWhenDue ==
    SplitBuilt =>
        /\ Cardinality(PlatformTransfers) <= 1
        /\ (Cardinality(PlatformTransfers) = 1)
               <=> (split.params.platformWallet # NoWallet /\ split.amounts.platformAmount # <<>>)

\* C37 as stated: in both builders, for every amount and every platformFeeBps in 0..10000,
\* platformAmount = floor(amount * bps / 10000), creatorAmount + platformAmount = amount,
\* neither is negative, and a platform transfer is emitted exactly when a platform wallet
\* is given and platformAmount > 0.
C37_SplitAsStated ==
    split.pc # "idle" =>
        /\ IsFloorOf(split.amounts.platformAmount,
                     NatMul(NatOfDecimal(split.params.amount),
                            NatOfSmall(split.params.platformFeeBps)), BasisPoints)
        /\ SplitConserves
        /\ PlatformTransferExactlyWhenDue

\* C37, amended: platformAmount = floor(amount * bps / 10000) when a platform wallet is
\* given and 0 when none is given; creatorAmount + platformAmount = amount and neither is
\* negative; a platform transfer is emitted exactly when a platform wallet is given and
\* platformAmount > 0.
C37_SplitConservesAmount ==
    split.pc # "idle" =>
        /\ IF split.params.platformWallet # NoWallet
           THEN IsFloorOf(split.amounts.platformAmount,
                          NatMul(NatOfDecimal(split.params.amount),
                                 NatOfSmall(split.params.platformFeeBps)), BasisPoints)
           ELSE split.amounts.platformAmount = <<>>
        /\ SplitConserves
        /\ PlatformTransferExactlyWhenDue

\* 1,000,000 units of USDC at 250 basis points: 25,000 to the platform, 975,000 to the creator
C37_Witness ==
    /\ SplitBuilt
    /\ split.fn = "buildUsdcTransferTransaction"
    /\ split.params.platformWallet = PlatformWallet
    /\ split.params.platformFeeBps = 250
    /\ split.params.amount = <<1, 0, 0, 0, 0, 0, 0>>
    /\ split.amounts.platformAmount = NatOfDecimal(<<2, 5, 0, 0, 0>>)
    /\ split.amounts.creatorAmount = NatOfDecimal(<<9, 7, 5, 0, 0, 0>>)
    /\ Cardinality(PlatformTransfers) = 1

\* a step of verifyPaymentWithSolanaPay that ends the call with "Transaction not found"
PayReportsNotFound ==
    /\ pc = "payLoop"
    /\ pc' = "idle"
    /\ Len(done') = Len(done) + 1
    /\ ~done'[Len(done')].outcome.ok
    /\ Includes(done'[Len(done')].outcome.message, <<"Transaction", "not", "found">>)

\* part_007:69-72: findReference is called in every turn the loop guard admits
LookupInStep == IF pay.attempts < maxAttempts(call.params.timeout) THEN 1 ELSE 0

\* findReference calls made by the running call, the current step included: every
\* earlier one failed and was counted in attempts (part_007:152)
PayLookups == pay.attempts + LookupInStep

PayLookupsBounded ==
    (pc = "payLoop" /\ call.params.timeout > 0) =>
        PayLookups <= call.params.timeout \div 1000

PayLooksBeforeNotFound ==
    (PayReportsNotFound /\ call.params.timeout > 0) => PayLookups >= 1

\* C38: for every positive timeout verifyPaymentWithSolanaPay looks the reference up at
\* least once before it reports that the transaction was not found, and it makes at most
\* floor(timeout / 1000) lookups in one call.
C38_LooksBeforeNotFound == [][PayLooksBeforeNotFound /\ PayLookupsBounded]_vars

\* the getEnv calls made so far that threw / that returned a config
EnvThrows == { i \in 1..Len(config.returned) : config.returned[i].threw }

EnvReturns == { i \in 1..Len(config.returned) : ~config.returned[i].threw }

\* C39: getEnv is memoized: after the first call that validates successfully every later
\* call returns the same cached config object, the one validated from the environment of
\* that first call, and the environment is not validated again; a call that throws for a
\* missing required variable leaves the cache empty, so that the next call validates again.
C39_GetEnvMemoized ==
    /\ \A i \in EnvReturns, j \in 1..Len(config.returned) :
          i < j => /\ j \in EnvReturns
                   /\ config.returned[j].object = config.returned[i].object
    /\ \A i \in EnvReturns :
          /\ config.cachedEnv = config.returned[i].object
          /\ (\A k \in 1..(i - 1) : k \in EnvThrows) =>
                config.heap[config.returned[i].object[1]] = validateEnv(config.returned[i].env)
    /\ config.validations = Cardinality(EnvThrows) + (IF EnvReturns = {} THEN 0 ELSE 1)
    /\ EnvReturns = {} => config.cachedEnv = <<>>
    /\ \A i \in EnvThrows : validateEnv(config.returned[i].env).threw

\* a call throws, the next one validates again and succeeds, and a third call returns the
\* cached object although a required variable has gone missing in the meantime
C39_Witness ==
    /\ Len(config.returned) >= 3
    /\ config.returned[1].threw
    /\ ~config.returned[2].threw
    /\ ~config.returned[3].threw
    /\ config.returned[3].object = config.returned[2].object
    /\ validateEnv(config.returned[3].env).threw
    /\ config.validations = 2

=============================================================================
